---- MODULE Spec2Model ----
(***************************************************************************)
(* The FakeHuman decision layer of OpenFrontIO: the per-tick entry point   *)
(* (FakeHumanExecution.tick / FakeHumanCoordinator.tick), the embargo      *)
(* ledger, the strategic-strike (MIRV) advisor with its cooldown memory    *)
(* and adaptive reserve, the economy build order, the conventional-nuke    *)
(* targeting and the array sampler.                                        *)
(*                                                                         *)
(* The game engine calls tick(ticks) once per game tick with its own tick  *)
(* counter, so the handler's argument and mg.ticks() are the same number.  *)
(* phase = "agent": the engine is about to call the handler;               *)
(* phase = "engine": the handler has returned, the engine finishes the     *)
(* game tick (runs the submitted executions, moves the world, ticks + 1).  *)
(*                                                                         *)
(* impl selects the implementation: "execution" is the monolithic          *)
(* FakeHumanExecution, "coordinator" is FakeHumanCoordinator with its      *)
(* Diplomacy/Economy/MIRV/Military advisors.  Where the two agree one      *)
(* definition models both; where they differ the definition branches.      *)
(*                                                                         *)
(* Gold is counted in gold, ticks in game ticks.  Where the source works on *)
(* doubles the model computes the exact rational value, on integers and    *)
(* integer fractions; a product the source rounds to a double before       *)
(* Math.floor may there come out one unit lower than the exact value.      *)
(***************************************************************************)
EXTENDS Integers, Sequences, FiniteSets, TLC

\* ------------------------------------------------------------------ bounds
NumOpp == 4            \* opponents of the agent in the game
MaxTickLife == 170     \* last game tick of the lifecycle specification
MaxDraws == 2          \* the random stream position is counted up to here
MaxTickMirv == 650     \* last game tick of the strike-cooldown specification
TickSpan == 2          \* game ticks a specification of one query is followed for
MaxLen == 4            \* longest array handed to arraySampler
MaxSample == 3         \* greatest sampleSize handed to arraySampler
MapSize == 100         \* the map is MapSize x MapSize tiles
MaxNukeSamples == 2    \* tiles a territory sample for a nuke is followed for
MaxTiles == 2          \* greatest numTiles handed to randTerritoryTileArray

Opp == 1..NumOpp

\* ------------------------------------------------------ the source's names
Me == 0                \* the agent's own player in mg.players()
NoPlayer == -1         \* null where the source has Player | null
NoTeam == 0            \* team() === null

StructureTypes ==
  {"City", "Port", "Factory", "DefensePost", "SAMLauncher", "MissileSilo"}

UnitTypes == StructureTypes \cup {"Warship", "AtomBomb", "HydrogenBomb", "MIRV"}

PlayerTypes == {"Human", "FakeHuman", "Bot"}

\* ------------------------------------------------------------- state
VARIABLES
  \* --- the agent (private fields)
  impl,                \* "execution" (FakeHumanExecution) or "coordinator"
  attackRate,          \* this.attackRate
  attackTick,          \* this.attackTick
  player,              \* this.player !== null
  behavior,            \* this.behavior !== null
  active,              \* this.active
  rngDraws,            \* draws taken from this.random since init(mg)
  embargoMalusApplied, \* this.embargoMalusApplied (set of player ids)
  lastMIRVSent,        \* this.lastMIRVSent: the ticks of its [tick, tile] entries
  mirvTargetsCache,    \* this.mirvTargetsCache: [set, tick, players]
  lastEmojiSent,       \* this.lastEmojiSent: player -> tick, on the keys present
  lastNukeSent,        \* this.lastNukeSent: sequence of [tick, tile]
  \* --- the game
  ticks,               \* mg.ticks()
  phase,               \* "agent" | "engine"
  spawnPhase,          \* mg.inSpawnPhase()
  inGame,              \* mg.players() holds the nation's player
  alive,               \* that player's isAlive()
  execs,               \* executions and requests handed to the game in this game tick
  relationDelta,       \* sum of the deltas passed to player.updateRelation(o, .)
  relation,            \* the value behind player.relation(o), -100..100
  myEmbargo,           \* player.hasEmbargoAgainst(o)
  gold,                \* player.gold()
  units,               \* player.units(type).length / unitsOwned(type)
  myTiles,             \* player.numTilesOwned()
  myTeam,              \* player.team()
  cost,                \* mg.unitInfo(type).cost(player)
  site,                \* structureSpawnTile(type) finds a buildable tile
  numLandTiles,        \* mg.numLandTiles()
  oppAlive,            \* opponent o is in mg.players() and isAlive()
  oppEmbargo,          \* o.hasEmbargoAgainst(player)
  oppType,             \* o.type()
  oppTeam,             \* o.team()
  oppAllied,           \* player.isAlliedWith(o)
  oppGold,             \* o.gold()
  oppTerritory,        \* Array.from(o.tiles()): the tiles of o, in iteration order
  oppInbound,          \* o has a MIRV in flight whose target tile the agent owns
  mirvBuildable,       \* the tiles t with player.canBuild(UnitType.MIRV, t)
  \* --- the map: tiles <<x, y>>, 0 <= x, y < MapSize
  frontX,              \* the agent owns the columns x >= frontX
  southY,              \* west of them, the rows y >= southY are southOwner's
  southOwner,          \* an opponent or NoPlayer (unclaimed land)
  enclaves,            \* tiles the agent owns west of frontX; opponent 1 owns the rest
  structures,          \* the opponents' structures: sequence of [owner, type, tile]
  siloTiles,           \* the tiles of the agent's missile silos
  unbuildable,         \* tiles where player.canBuild(nukeType, tile) is false
  shore,               \* the agent has border tiles on the ocean shore
  seaRoute,            \* o is not friendly and has a shore a boat can reach
  canAlly,             \* player.canSendAllianceRequest(o)
  \* --- the map as randomSpawnLand() reads it in the spawn phase
  spawnCell,           \* this.nation.spawnCell: <<x, y>>
  landTiles,           \* the tiles with mg.isLand(tile)
  claimedTiles,        \* the tiles with mg.hasOwner(tile)
  mountainTiles,       \* the tiles with terrainType(tile) === TerrainType.Mountain
  \* --- what the last run of each advisor did (history)
  binds,               \* times this.player has been assigned
  dipCalls,            \* opponents updateRelation was called for in the last run
  embAtRun,            \* oppEmbargo as the last embargo-penalty run saw it
  dipSame,             \* the last run saw the statuses the run before it saw
  dipQuery,            \* the last diplomacy query: [tick, rec, target]
  embLifted,           \* opponents a run of the enforcement has lifted an embargo on
  mirvQuery,           \* the last strike query: [tick, result, target]
  lastLaunch,          \* tick of the last MirvExecution submitted (-1: none)
  prevLaunch,          \* tick of the one before it (-1: none)
  lastHesitation,      \* tick of the last strike query that hesitated (-1: none)
  ecoQuery,            \* the last economy query: [tick, type, lucky]
  reserveSeen,         \* getMIRVReserveThreshold() as that query computed it
  nukeQuery,           \* the last run of maybeSendNuke: [tick, target, type, tile, launched]
  milQuery,            \* the last military query: [tick, out]
  \* --- one call of arraySampler(a, sampleSize), run on its own
  smpArray,            \* a
  smpSize,             \* sampleSize as passed
  smpLeft,             \* sampleSize as the loop counts it down
  smpRemaining,        \* remaining
  smpOut,              \* the elements yielded so far
  smpDraws,            \* draws the call has taken from the random stream
  smpPc,               \* "call" | "loop" | "done"
  \* --- one call of structureSpawnTile(type), run on its own
  sst,                 \* [pc, tiles, valueFunction, canBuild, i, bestTile, bestValue]
  \* --- one call of randTerritoryTileArray(game, player, random, numTiles)
  rtt,                 \* [pc, numTiles, owned, boundingBox, i, tries, tiles, draws]
  vtq,                 \* [pc, called, players, refiltered, validAt]
  \* --- the run
  horizon              \* the game tick the run is followed to

agentVars == <<impl, attackRate, attackTick, player, behavior, active, rngDraws,
               embargoMalusApplied, lastMIRVSent, mirvTargetsCache, lastEmojiSent,
               lastNukeSent>>
selfVars == <<gold, units, myTiles, myTeam, cost, site, numLandTiles>>
oppVars == <<oppAlive, oppEmbargo, oppType, oppTeam, oppGold, oppTerritory,
            oppInbound, mirvBuildable>>
mapVars == <<frontX, southY, southOwner, enclaves, structures, siloTiles,
             unbuildable, shore, seaRoute, canAlly, spawnCell, landTiles,
             claimedTiles, mountainTiles>>
gameVars == <<ticks, spawnPhase, inGame, alive, execs, relationDelta, relation,
              myEmbargo, oppAllied, selfVars, oppVars, mapVars>>
dipVars == <<embargoMalusApplied, relationDelta, relation, myEmbargo, oppAllied,
            dipCalls, embAtRun, dipSame, dipQuery, embLifted>>
mirvVars == <<lastMIRVSent, mirvTargetsCache, mirvQuery, lastLaunch, prevLaunch,
             lastHesitation>>
ghostVars == <<binds, dipCalls, embAtRun, dipSame, dipQuery, embLifted, mirvQuery, lastLaunch,
               prevLaunch, lastHesitation, ecoQuery, reserveSeen, nukeQuery,
               milQuery>>
advisorVars == <<dipVars, mirvVars, lastEmojiSent, ecoQuery, reserveSeen,
                lastNukeSent, nukeQuery, milQuery>>
samplerVars == <<smpArray, smpSize, smpLeft, smpRemaining, smpOut, smpDraws, smpPc,
                 sst, rtt, vtq>>
vars == <<agentVars, gameVars, ghostVars, samplerVars, phase, horizon>>

\* ------------------------------------------------------- random stream
\* PseudoRandom.nextInt(min, max): an integer in [min, max).
NextInt(min, max) == min..(max - 1)

\* The stream position after n more draws (counted up to MaxDraws).
Drawn(pos, n) == IF pos + n > MaxDraws THEN MaxDraws ELSE pos + n

\* ------------------------------------------------------------- cadence
\* tick(): if (ticks % this.attackRate !== this.attackTick) return;
OffCadenceIgnoresAttackTick(t) == t % attackRate # 0

OffCadence(t) == t % attackRate # attackTick

\* ------------------------------------------------- embargo-penalty ledger
embargoMalus == -20

\* mg.players().filter((p) => p.id() !== player.id())
Others == {o \in Opp : oppAlive[o]}

\* The delta updateRelationsFromEmbargos passes to updateRelation for `other`
\* (0: no call).
MalusDeltaNoLedgerCheck(other) ==
  IF oppEmbargo[other] THEN embargoMalus
  ELSE IF other \in embargoMalusApplied THEN 0 - embargoMalus
  ELSE 0

MalusDelta(other) ==
  IF oppEmbargo[other] /\ other \notin embargoMalusApplied THEN embargoMalus
  ELSE IF ~oppEmbargo[other] /\ other \in embargoMalusApplied THEN 0 - embargoMalus
  ELSE 0

\* this.embargoMalusApplied after the forEach over others.
LedgerAfterNeverDeletes ==
  embargoMalusApplied \cup {o \in Others : MalusDelta(o) = embargoMalus}

LedgerAfter ==
  (embargoMalusApplied \cup {o \in Others : MalusDelta(o) = embargoMalus})
    \ {o \in Others : MalusDelta(o) = 0 - embargoMalus}

\* player.updateRelation(other, delta) on the value v (the engine keeps it
\* within -100..100).
UpdatedRelation(v, delta) ==
  IF v + delta > 100 THEN 100 ELSE IF v + delta < -100 THEN -100 ELSE v + delta

\* One run of updateRelationsFromEmbargos.
UpdateRelationsFromEmbargos ==
  /\ embargoMalusApplied' = LedgerAfter
  /\ relationDelta' = [o \in Opp |->
        IF o \in Others THEN relationDelta[o] + MalusDelta(o) ELSE relationDelta[o]]
  /\ relation' = [o \in Opp |->
        IF o \in Others /\ MalusDelta(o) # 0
        THEN UpdatedRelation(relation[o], MalusDelta(o)) ELSE relation[o]]
  /\ dipCalls' = {o \in Others : MalusDelta(o) # 0}
  /\ embAtRun' = oppEmbargo
  /\ dipSame' = (embAtRun = oppEmbargo)

\* ------------------------------------------- hostile-embargo enforcement
\* The Relation enum: Hostile, Distrustful, Neutral, Friendly.
Hostile == 0
Neutral == 2

\* player.relation(other), from the value the engine keeps.
RelationOf(v) ==
  IF v < -50 THEN Hostile ELSE IF v < 0 THEN 1 ELSE IF v < 50 THEN Neutral ELSE 3

\* player.hasEmbargoAgainst(other) after handleEmbargoesToHostileNations has
\* looked at `other`, whose relation value is v.
EmbargoAfterNeverLifts(other, v) ==
  IF /\ RelationOf(v) <= Hostile /\ ~myEmbargo[other]
     /\ ~(myTeam # NoTeam /\ oppTeam[other] = myTeam)
  THEN TRUE
  ELSE myEmbargo[other]

EmbargoAfterLiftsUnlessHostile(other, v) ==
  IF /\ RelationOf(v) <= Hostile /\ ~myEmbargo[other]
     /\ ~(myTeam # NoTeam /\ oppTeam[other] = myTeam)
  THEN TRUE
  ELSE IF RelationOf(v) > Hostile /\ myEmbargo[other] THEN FALSE
  ELSE myEmbargo[other]

EmbargoAfter(other, v) ==
  IF /\ RelationOf(v) <= Hostile /\ ~myEmbargo[other]
     /\ ~(myTeam # NoTeam /\ oppTeam[other] = myTeam)
  THEN TRUE
  ELSE IF RelationOf(v) >= Neutral /\ myEmbargo[other] THEN FALSE
  ELSE myEmbargo[other]

\* One run of handleEmbargoesToHostileNations, after the relations moved.
HandleEmbargoesToHostileNations ==
  /\ myEmbargo' = [o \in Opp |->
       IF o \in Others THEN EmbargoAfter(o, relation'[o]) ELSE myEmbargo[o]]
  /\ embLifted' = embLifted \cup {o \in Others : myEmbargo[o] /\ ~myEmbargo'[o]}

\* ------------------------------------------- betrayal, alliance requests
\* null where recommend() returns ActionRecommendation | null
NoRecommendation == [rec |-> "null", target |-> NoPlayer]

\* findBetrayalTarget(): "For now, no strategic betrayals".
FindBetrayalTargetFirstAlly ==
  IF \E o \in Others : oppAllied[o]
  THEN CHOOSE o \in Others : oppAllied[o] /\ \A q \in Others : oppAllied[q] => o <= q
  ELSE NoPlayer

FindBetrayalTarget == NoPlayer

\* recommendAllianceRequest(): left to BotBehavior, null.
RecommendAllianceRequest == NoRecommendation

\* What DiplomacyAdvisor.recommend() returns once the embargo steps have run.
DiplomacyRecommendation ==
  IF FindBetrayalTarget # NoPlayer
  THEN [rec |-> "Betrayal", target |-> FindBetrayalTarget]
  ELSE RecommendAllianceRequest

\* execute() of recommendBetrayal(target): breakAlliance on the alliance with
\* target, if there is one.
AlliancesAfter(r) ==
  IF r.rec = "Betrayal" THEN [oppAllied EXCEPT ![r.target] = FALSE] ELSE oppAllied

\* The coordinator's diplomacy stage after the embargo steps; in
\* FakeHumanExecution nothing calls maybeConsiderBetrayal.
ConsiderBetrayal ==
  /\ oppAllied' = IF impl = "coordinator"
                  THEN AlliancesAfter(DiplomacyRecommendation) ELSE oppAllied
  /\ dipQuery' = IF impl = "coordinator"
                 THEN [tick |-> ticks, rec |-> DiplomacyRecommendation.rec,
                       target |-> DiplomacyRecommendation.target]
                 ELSE dipQuery

\* ---------------------------------------------------------------- the map
\* The charted region: tiles <<x, y>>, all land.  Opponents that do not live
\* on it keep their land and structures overseas, on tiles with x < 0.
OnMap(t) == t[1] >= 0 /\ t[1] < MapSize /\ t[2] >= 0 /\ t[2] < MapSize

\* mg.ref(x, y): the number the game uses for the tile.
TileRef(t) == t[2] * MapSize + t[1]

\* null where the source has TileRef | null
NoTile == <<>>

RECURSIVE SumSeq(_, _)
SumSeq(s, i) == IF i = 0 THEN 0 ELSE s[i] + SumSeq(s, i - 1)

\* ------------------------------------------------------------ players
\* mg.players(): the players alive in the game, the agent first.
Players == (IF alive THEN {Me} ELSE {}) \cup Others

TeamOf(p) == IF p = Me THEN myTeam ELSE oppTeam[p]

\* p.numTilesOwned()
Tiles(p) == IF p = Me THEN myTiles ELSE Len(oppTerritory[p])

\* countCities(p) = p.unitCount(UnitType.City)
CountCities(p) ==
  IF p = Me THEN units["City"]
  ELSE Cardinality({i \in 1..Len(structures) :
                      structures[i].owner = p /\ structures[i].type = "City"})

\* player.isOnSameTeam(o): both have a team and it is the same one.
IsOnSameTeam(o) == myTeam # NoTeam /\ oppTeam[o] = myTeam

\* player.isFriendly(o): an ally or a team mate.
IsFriendly(o) == oppAllied[o] \/ IsOnSameTeam(o)

\* The first element, in the order of mg.players(), of S with the greatest F:
\* what a stable descending sort puts first and what a scan with a strict
\* `>` keeps.
FirstMax(S, F(_)) ==
  CHOOSE p \in S : \A q \in S : F(p) > F(q) \/ (F(p) = F(q) /\ p <= q)

\* members.map((x) => x.numTilesOwned()).reduce((a, b) => a + b, 0), over
\* the players of S with ids up to i.
RECURSIVE SumTilesTo(_, _)
SumTilesTo(S, i) ==
  IF i < Me THEN 0
  ELSE (IF i \in S THEN Tiles(i) ELSE 0) + SumTilesTo(S, i - 1)

SumTiles(S) == SumTilesTo(S, NumOpp)

\* a / b >= frac[1] / frac[2], for b > 0 (the source compares doubles).
AtLeast(a, b, frac) == a * frac[2] >= frac[1] * b

\* ------------------------------------------------------------- emoji
\* this.lastEmojiSent.get(enemy) ?? -300
LastSent(sent, enemy) == IF enemy \in DOMAIN sent THEN sent[enemy] ELSE -300

\* maybeSendEmoji(enemy) on the map `sent`: the map afterwards, the executions
\* it adds and the random draws it takes.
MaybeSendEmoji(enemy, sent) ==
  IF oppType[enemy] # "Human" \/ ticks - LastSent(sent, enemy) <= 300
  THEN [map |-> sent, out |-> <<>>, draws |-> 0]
  ELSE [map |-> [o \in DOMAIN sent \cup {enemy} |->
                   IF o = enemy THEN ticks ELSE sent[o]],
        out |-> <<[kind |-> "Emoji", target |-> enemy]>>,
        draws |-> 1]

\* ---------------------------------------------- strategic strike (MIRV)
MIRV_COOLDOWN_TICKS == 600

VICTORY_DENIAL_TEAM_THRESHOLD == <<4, 5>>          \* 0.8

VICTORY_DENIAL_INDIVIDUAL_THRESHOLD == <<13, 20>>  \* 0.65

STEAMROLL_CITY_GAP_MULTIPLIER == <<9, 5>>          \* 1.8

MIRV_TARGETS_CACHE_TICKS == 20

\* removeOldMIRVEvents() on the queue `sent` (entries are their ticks).
RECURSIVE RemoveOldMIRVEventsNukeAge(_)
RemoveOldMIRVEventsNukeAge(sent) ==
  IF Len(sent) > 0 /\ sent[1] + 500 < ticks
  THEN RemoveOldMIRVEventsNukeAge(Tail(sent))
  ELSE sent

RECURSIVE RemoveOldMIRVEvents(_)
RemoveOldMIRVEvents(sent) ==
  IF Len(sent) > 0 /\ sent[1] + MIRV_COOLDOWN_TICKS <= ticks
  THEN RemoveOldMIRVEvents(Tail(sent))
  ELSE sent

\* triggerMIRVCooldown(tile?): removeOldMIRVEvents(); push([tick, tile]).
TriggerMIRVCooldown(sent) == Append(RemoveOldMIRVEvents(sent), ticks)

\* getValidMirvTargetPlayers(): the cached list while it is younger than
\* MIRV_TARGETS_CACHE_TICKS, else the filtered mg.players(), which it caches.
CacheFreshInclusive ==
  /\ mirvTargetsCache.set
  /\ ticks - mirvTargetsCache.tick <= MIRV_TARGETS_CACHE_TICKS

CacheFresh ==
  /\ mirvTargetsCache.set
  /\ ticks - mirvTargetsCache.tick < MIRV_TARGETS_CACHE_TICKS

ValidTargetsNow ==
  {p \in Others : oppType[p] # "Bot" /\ ~IsOnSameTeam(p)}

GetValidMirvTargetPlayers ==
  IF CacheFresh THEN mirvTargetsCache.players ELSE ValidTargetsNow

CacheAfterQuery ==
  IF CacheFresh THEN mirvTargetsCache
  ELSE [set |-> TRUE, tick |-> ticks, players |-> ValidTargetsNow]

\* selectCounterMirvTarget(): the sender of an inbound MIRV with most tiles.
SelectCounterMirvTargetFewestTiles ==
  LET attackers == {p \in GetValidMirvTargetPlayers : oppInbound[p]}
  IN IF attackers = {} THEN NoPlayer
     ELSE CHOOSE p \in attackers : \A q \in attackers :
            Tiles(p) < Tiles(q) \/ (Tiles(p) = Tiles(q) /\ p <= q)

SelectCounterMirvTarget ==
  LET attackers == {p \in GetValidMirvTargetPlayers : oppInbound[p]}
  IN IF attackers = {} THEN NoPlayer ELSE FirstMax(attackers, Tiles)

\* The severity selectVictoryDenialTarget gives p, times totalLand.
SeverityStrict(p) ==
  IF TeamOf(p) # NoTeam THEN
    LET teamMembers == {x \in Players : TeamOf(x) = TeamOf(p)}
        teamTerritory == SumTiles(teamMembers)
    IN IF /\ AtLeast(teamTerritory, numLandTiles, VICTORY_DENIAL_TEAM_THRESHOLD)
          /\ teamMembers # {}
          /\ FirstMax(teamMembers, Tiles) = p
       THEN teamTerritory ELSE 0
  ELSE IF Tiles(p) * 20 > 13 * numLandTiles THEN Tiles(p) ELSE 0

SeverityEveryMember(p) ==
  IF TeamOf(p) # NoTeam THEN
    LET teamMembers == {x \in Players : TeamOf(x) = TeamOf(p)}
        teamTerritory == SumTiles(teamMembers)
    IN IF AtLeast(teamTerritory, numLandTiles, VICTORY_DENIAL_TEAM_THRESHOLD)
       THEN teamTerritory ELSE 0
  ELSE IF AtLeast(Tiles(p), numLandTiles, VICTORY_DENIAL_INDIVIDUAL_THRESHOLD)
       THEN Tiles(p) ELSE 0

Severity(p) ==
  IF TeamOf(p) # NoTeam THEN
    LET teamMembers == {x \in Players : TeamOf(x) = TeamOf(p)}
        teamTerritory == SumTiles(teamMembers)
    IN IF /\ AtLeast(teamTerritory, numLandTiles, VICTORY_DENIAL_TEAM_THRESHOLD)
          /\ teamMembers # {}
          /\ FirstMax(teamMembers, Tiles) = p
       THEN teamTerritory ELSE 0
  ELSE IF AtLeast(Tiles(p), numLandTiles, VICTORY_DENIAL_INDIVIDUAL_THRESHOLD)
       THEN Tiles(p) ELSE 0

SelectVictoryDenialTarget ==
  LET cands == {p \in GetValidMirvTargetPlayers : Severity(p) > 0}
  IN IF numLandTiles = 0 \/ cands = {} THEN NoPlayer
     ELSE FirstMax(cands, Severity)

\* selectSteamrollStopTarget(): the valid target with most cities, if it has
\* at least STEAMROLL_CITY_GAP_MULTIPLIER times the cities of the next player.
SelectSteamrollStopTarget ==
  LET validTargets == GetValidMirvTargetPlayers
  IN IF validTargets = {} \/ Cardinality(Players) < 2 THEN NoPlayer
     ELSE LET topTarget == FirstMax(validTargets, CountCities)
              rest == Players \ {topTarget}
              secondHighest ==
                IF rest = {} THEN 0 ELSE CountCities(FirstMax(rest, CountCities))
          IN IF CountCities(topTarget) * STEAMROLL_CITY_GAP_MULTIPLIER[2]
                  >= secondHighest * STEAMROLL_CITY_GAP_MULTIPLIER[1]
             THEN topTarget ELSE NoPlayer

\* What one strike query leaves behind: the cooldown queue, the target cache,
\* the emoji map, the executions it adds, its random draws, and for the
\* record which heuristic answered, for whom, and whether a MIRV was sent.
MirvOutcome(sent, cache, emoji, out, draws, result, target, launched) ==
  [sent |-> sent, cache |-> cache, emoji |-> emoji, out |-> out,
   draws |-> draws, result |-> result, target |-> target, launched |-> launched]

\* N * N times the squared distance of tile t from the mean of the N tiles.
CenterDistSquared(tiles, t) ==
  LET n == Len(tiles)
      sumX == SumSeq([i \in 1..n |-> tiles[i][1]], n)
      sumY == SumSeq([i \in 1..n |-> tiles[i][2]], n)
  IN (n * t[1] - sumX) * (n * t[1] - sumX) + (n * t[2] - sumY) * (n * t[2] - sumY)

\* The closest-tile scan of calculateTerritoryCenter from tile i on, `best`
\* being the index of the closest tile so far (0: none yet).
RECURSIVE ClosestFrom(_, _, _)
ClosestFrom(tiles, i, best) ==
  IF i > Len(tiles) THEN best
  ELSE IF best = 0 \/ CenterDistSquared(tiles, tiles[i]) < CenterDistSquared(tiles, tiles[best])
    THEN ClosestFrom(tiles, i + 1, i)
  ELSE ClosestFrom(tiles, i + 1, best)

\* calculateTerritoryCenter(target): the owned tile closest to the mean of
\* the target's tile coordinates, the first such in iteration order; NoTile
\* for null.
CalculateTerritoryCenter(target) ==
  IF Len(oppTerritory[target]) = 0 THEN NoTile
  ELSE oppTerritory[target][ClosestFrom(oppTerritory[target], 1, 0)]

\* The fallback loop: the first tile of the enemy a MIRV can be built on.
FirstBuildable(tiles) ==
  IF \A i \in 1..Len(tiles) : tiles[i] \notin mirvBuildable THEN NoTile
  ELSE tiles[CHOOSE i \in 1..Len(tiles) :
               /\ tiles[i] \in mirvBuildable
               /\ \A j \in 1..(i - 1) : tiles[j] \notin mirvBuildable]

\* `centerTile && canBuild(MIRV, centerTile)`: the tile numbered 0 is falsy.
CenterUsable(centerTile) ==
  centerTile # NoTile /\ TileRef(centerTile) # 0 /\ centerTile \in mirvBuildable

\* The tile maybeSendMIRV / createMIRVRecommendation settles on, NoTile where
\* nothing is sent.  createMIRVRecommendation ends with
\* `if (!targetTile) return null`, which also drops the tile numbered 0.
MirvTargetTile(enemy) ==
  LET enemyTiles == oppTerritory[enemy]
      centerTile == CalculateTerritoryCenter(enemy)
      targetTile == IF CenterUsable(centerTile) THEN centerTile
                    ELSE FirstBuildable(enemyTiles)
  IN IF Len(enemyTiles) = 0 THEN NoTile
     ELSE IF impl = "coordinator" /\ targetTile # NoTile /\ TileRef(targetTile) = 0
       THEN NoTile
     ELSE targetTile

\* maybeSendMIRV(enemy) / createMIRVRecommendation(enemy).execute(): an emoji
\* first (FakeHumanExecution only), then sendMIRV at the territory centre or
\* at the first tile of the enemy the agent can build a MIRV on.
MaybeSendMIRV(enemy, sent, result) ==
  LET em == IF impl = "execution" THEN MaybeSendEmoji(enemy, lastEmojiSent)
            ELSE [map |-> lastEmojiSent, out |-> <<>>, draws |-> 0]
      tile == MirvTargetTile(enemy)
      launch == tile # NoTile
  IN MirvOutcome(IF launch THEN TriggerMIRVCooldown(sent) ELSE sent,
                 CacheAfterQuery, em.map,
                 em.out \o (IF launch
                            THEN <<[kind |-> "MIRV", target |-> enemy, tile |-> tile]>>
                            ELSE <<>>),
                 1 + em.draws, result, enemy, launch)

\* The heuristics in their order: counter-strike, victory denial, steamroll.
SelectAndSendDenialFirst(sent) ==
  IF SelectVictoryDenialTarget # NoPlayer
    THEN MaybeSendMIRV(SelectVictoryDenialTarget, sent, "denial")
  ELSE IF SelectCounterMirvTarget # NoPlayer
    THEN MaybeSendMIRV(SelectCounterMirvTarget, sent, "counter")
  ELSE IF SelectSteamrollStopTarget # NoPlayer
    THEN MaybeSendMIRV(SelectSteamrollStopTarget, sent, "steamroll")
  ELSE MirvOutcome(sent, CacheAfterQuery, lastEmojiSent, <<>>, 1, "none",
                   NoPlayer, FALSE)

SelectAndSend(sent) ==
  IF SelectCounterMirvTarget # NoPlayer
    THEN MaybeSendMIRV(SelectCounterMirvTarget, sent, "counter")
  ELSE IF SelectVictoryDenialTarget # NoPlayer
    THEN MaybeSendMIRV(SelectVictoryDenialTarget, sent, "denial")
  ELSE IF SelectSteamrollStopTarget # NoPlayer
    THEN MaybeSendMIRV(SelectSteamrollStopTarget, sent, "steamroll")
  ELSE MirvOutcome(sent, CacheAfterQuery, lastEmojiSent, <<>>, 1, "none",
                   NoPlayer, FALSE)

\* considerMIRV() / MIRVAdvisor.recommend() and the execute() of what it
\* recommends: the set of outcomes the hesitation draw allows.
ConsiderMIRVHesitatesFree ==
  IF units["MissileSilo"] = 0 \/ gold < cost["MIRV"] THEN
    {MirvOutcome(lastMIRVSent, mirvTargetsCache, lastEmojiSent, <<>>, 0,
                 "gated", NoPlayer, FALSE)}
  ELSE IF Len(RemoveOldMIRVEvents(lastMIRVSent)) > 0 THEN
    {MirvOutcome(RemoveOldMIRVEvents(lastMIRVSent), mirvTargetsCache,
                 lastEmojiSent, <<>>, 0, "cooling", NoPlayer, FALSE)}
  ELSE
    {MirvOutcome(RemoveOldMIRVEvents(lastMIRVSent), mirvTargetsCache,
                 lastEmojiSent, <<>>, 1, "hesitated", NoPlayer, FALSE),
     SelectAndSend(RemoveOldMIRVEvents(lastMIRVSent))}

ConsiderMIRVPrunesFirst ==
  IF units["MissileSilo"] = 0 \/ gold < cost["MIRV"] THEN
    {MirvOutcome(RemoveOldMIRVEvents(lastMIRVSent), mirvTargetsCache,
                 lastEmojiSent, <<>>, 0, "gated", NoPlayer, FALSE)}
  ELSE IF Len(RemoveOldMIRVEvents(lastMIRVSent)) > 0 THEN
    {MirvOutcome(RemoveOldMIRVEvents(lastMIRVSent), mirvTargetsCache,
                 lastEmojiSent, <<>>, 0, "cooling", NoPlayer, FALSE)}
  ELSE
    {MirvOutcome(TriggerMIRVCooldown(RemoveOldMIRVEvents(lastMIRVSent)),
                 mirvTargetsCache, lastEmojiSent, <<>>, 1, "hesitated",
                 NoPlayer, FALSE),
     SelectAndSend(RemoveOldMIRVEvents(lastMIRVSent))}

ConsiderMIRV ==
  IF units["MissileSilo"] = 0 \/ gold < cost["MIRV"] THEN
    {MirvOutcome(lastMIRVSent, mirvTargetsCache, lastEmojiSent, <<>>, 0,
                 "gated", NoPlayer, FALSE)}
  ELSE IF Len(RemoveOldMIRVEvents(lastMIRVSent)) > 0 THEN
    {MirvOutcome(RemoveOldMIRVEvents(lastMIRVSent), mirvTargetsCache,
                 lastEmojiSent, <<>>, 0, "cooling", NoPlayer, FALSE)}
  ELSE
    {MirvOutcome(TriggerMIRVCooldown(RemoveOldMIRVEvents(lastMIRVSent)),
                 mirvTargetsCache, lastEmojiSent, <<>>, 1, "hesitated",
                 NoPlayer, FALSE),
     SelectAndSend(RemoveOldMIRVEvents(lastMIRVSent))}

\* ------------------------------------------------- exact wide arithmetic
\* A gold amount times a small coefficient does not fit TLC's
\* integers, so such products are kept as <<hi, lo>> = hi * Million + lo.
Million == 1000 * 1000

Wide(c, g) == <<c * (g \div Million), c * (g % Million)>>

WideAdd(v, w) == <<v[1] + w[1], v[2] + w[2]>>

WideSub(v, w) == <<v[1] - w[1], v[2] - w[2]>>

WideNorm(v) == <<v[1] + (v[2] \div Million), v[2] % Million>>

\* v > w
WideGt(v, w) ==
  LET d == WideNorm(WideSub(v, w)) IN d[1] > 0 \/ (d[1] = 0 /\ d[2] > 0)

\* Math.floor(v / c) for v >= 0 and a small c > 0.
WideFloorDiv(v, c) ==
  LET n == WideNorm(v)
  IN (n[1] \div c) * Million + (((n[1] % c) * Million + n[2]) \div c)

Max2(a, b) == IF a >= b THEN a ELSE b

Min2(a, b) == IF a <= b THEN a ELSE b

\* ------------------------------------------------------ adaptive reserve
MIRV_RESERVE_MIN == 35000000

MIRV_RESERVE_TARGET == 40000000

Gold(p) == oppGold[p]

\* otherPlayers: mg.players() without the agent, isPlayer() and isAlive().
OtherPlayers == Others

\* The position of p in sortedGoldLevels = otherGoldLevels.sort((a, b) => b - a),
\* counted from 0 (the sort is stable).
GoldRank(S, p) ==
  Cardinality({q \in S : Gold(q) > Gold(p) \/ (Gold(q) = Gold(p) /\ q < p)})

\* sortedGoldLevels.slice(0, k).reduce((sum, gold) => sum + gold, 0)
RECURSIVE TopSumTo(_, _, _)
TopSumTo(S, k, i) ==
  IF i = 0 THEN 0
  ELSE (IF i \in S /\ GoldRank(S, i) < k THEN Gold(i) ELSE 0) + TopSumTo(S, k, i - 1)

TopSum(S, k) == TopSumTo(S, k, NumOpp)

\* competitiveMultiplier, in tenths, for the benchmark wb = wbNum / wbDen
\* given as the wide wbTimes(c) = c * wbNum.
CompetitiveMultiplier(maxOtherGold, sumTop3, top3Count, wbDen, wbTimes(_)) ==
  LET wbPositive == WideGt(wbTimes(1), <<0, 0>>)
      \* topGapRatio = (maxOtherGold - wb) / wb > a / 10
      gapOver(a) == wbPositive /\ WideGt(Wide(10 * wbDen, maxOtherGold), wbTimes(a + 10))
      \* levelRatio = wb / 20_000_000 > a / 2
      levelOver(a) == WideGt(wbTimes(2), Wide(a * wbDen, 20000000))
      factor1 == IF gapOver(6) THEN 13
                 ELSE IF gapOver(3) THEN 12
                 ELSE IF gapOver(1) THEN 11
                 ELSE 10
      factor2 == IF levelOver(3) THEN Max2(factor1, 12)
                 ELSE IF levelOver(2) THEN Max2(factor1, 11)
                 ELSE factor1
  IN IF maxOtherGold >= 25000000 THEN Max2(factor2, 14)
     ELSE IF sumTop3 >= 20000000 * top3Count THEN Max2(factor2, 12)
     ELSE factor2

\* Math.min(competitiveThreshold, Number(MIRV_RESERVE_TARGET) * 1.5)
CapThresholdResets(competitiveThreshold) ==
  IF competitiveThreshold > (MIRV_RESERVE_TARGET * 3) \div 2
  THEN MIRV_RESERVE_MIN ELSE competitiveThreshold

CapThresholdNone(competitiveThreshold) == competitiveThreshold

CapThreshold(competitiveThreshold) ==
  Min2(competitiveThreshold, (MIRV_RESERVE_TARGET * 3) \div 2)

\* The threshold with competitiveMultiplier left at its base 1.0.
ThresholdFromBaseMultiplier(n, top3Count, maxOtherGold, sumAll, sumTop3) ==
  LET wbDen == 5 * top3Count * n
      wbTimes(c) == WideAdd(Wide(c * 3 * n, sumTop3), Wide(c * 2 * top3Count, sumAll))
  IN CapThreshold(Max2(MIRV_RESERVE_MIN,
                       Max2(WideFloorDiv(wbTimes(10), 10 * wbDen),
                            WideFloorDiv(Wide(7, maxOtherGold), 10))))

\* The threshold from the statistics of otherGoldLevels.
\* weightedBenchmark = top3Avg * 0.6 + avgOtherGold * 0.4
\*                   = (3 n sumTop3 + 2 top3Count sumAll) / (5 top3Count n)
ThresholdFrom(n, top3Count, maxOtherGold, sumAll, sumTop3) ==
  LET wbDen == 5 * top3Count * n
      wbTimes(c) == WideAdd(Wide(c * 3 * n, sumTop3), Wide(c * 2 * top3Count, sumAll))
      \* Math.max(baseThreshold, wb * multiplier, maxOtherGold * 0.7), floored
      competitiveThreshold(multiplier) ==
        Max2(MIRV_RESERVE_MIN,
             Max2(WideFloorDiv(wbTimes(multiplier), 10 * wbDen),
                  WideFloorDiv(Wide(7, maxOtherGold), 10)))
  IN CHOOSE finalThreshold \in
       {CapThreshold(ct) :
          ct \in {competitiveThreshold(m) :
                    m \in {CompetitiveMultiplier(maxOtherGold, sumTop3, top3Count,
                                                 wbDen, wbTimes)}}} : TRUE

\* getMIRVReserveThreshold() for a non-empty otherPlayers: the statistics are
\* computed once, as the source's consts are.
CompetitiveThreshold(others) ==
  CHOOSE finalThreshold \in
    {ThresholdFrom(n, top3Count, maxOtherGold, sumAll, sumTop3) :
       n \in {Cardinality(others)},
       top3Count \in {Min2(3, Cardinality(others))},
       maxOtherGold \in {Gold(FirstMax(others, Gold))},
       sumAll \in {TopSum(others, Cardinality(others))},
       sumTop3 \in {TopSum(others, Min2(3, Cardinality(others)))}} : TRUE

\* shouldMaintainMIRVReserve()
ShouldMaintainMIRVReserve == units["MissileSilo"] > 0

GetMIRVReserveThreshold ==
  IF ~ShouldMaintainMIRVReserve THEN 0
  ELSE IF OtherPlayers = {} THEN MIRV_RESERVE_MIN
  ELSE CompetitiveThreshold(OtherPlayers)

\* getSpendableGold()
SpendableNoFloor(totalGold, reserveThreshold) == totalGold - reserveThreshold

Spendable(totalGold, reserveThreshold) ==
  IF totalGold <= reserveThreshold THEN 0 ELSE totalGold - reserveThreshold

GetSpendableGold == Spendable(gold, GetMIRVReserveThreshold)

\* canAffordWithReserve(cost)
CanAffordWithReserve(c) == GetSpendableGold >= c

\* ------------------------------------------------------------- economy
\* baseOrder of getBuildOrder().
BaseOrder ==
  <<"City", "Port", "Warship", "Factory", "DefensePost", "SAMLauncher", "MissileSilo">>

\* baseOrder.filter(type !== MissileSilo && type !== Warship), after MissileSilo.
PrioritizedOrder ==
  <<"MissileSilo", "City", "Port", "Factory", "DefensePost", "SAMLauncher">>

\* shouldPrioritizeMissileSilos()
ShouldPrioritizeMissileSilos ==
  LET currentSilos == units["MissileSilo"]
      gameTime == ticks
      territorySize == myTiles
  IN \/ currentSilos = 0 /\ gameTime > 60 * 5
     \/ currentSilos < 2 /\ gameTime > 60 * 10
     \/ currentSilos < 2 /\ gold > 10000000 /\ territorySize > 50
     \/ /\ OtherPlayers # {}
        /\ Gold(FirstMax(OtherPlayers, Gold)) > 20000000
        /\ currentSilos < 2

\* FakeHumanExecution reorders when silos are a priority; EconomyAdvisor
\* always returns the base order.
Prioritized == impl = "execution" /\ ShouldPrioritizeMissileSilos

GetBuildOrder == IF Prioritized THEN PrioritizedOrder ELSE BaseOrder

SetOfOrder(order) == {order[i] : i \in 1..Len(order)}

\* The multiplier of a build-order entry applied to num = owned + 1.
Multiplier(type, num) ==
  CASE type \in {"City", "Port", "Factory"} -> num
    [] type = "DefensePost" -> (num + 2) * (num + 2)
    [] type = "SAMLauncher" -> num * num
    [] type = "MissileSilo" -> IF Prioritized THEN Max2(1, num) ELSE num * num
    [] type = "Warship" -> 0

PerceivedCost(type) == cost[type] * Multiplier(type, units[type] + 1)

\* The affordability test of maybeSpawnStructure / recommendStructure and of
\* maybeSpawnWarship / recommendWarship: FakeHumanExecution asks
\* canAffordWithReserve, EconomyAdvisor compares the gold balance itself.
Affordable(type) ==
  IF type = "Warship"
  THEN IF impl = "execution" THEN CanAffordWithReserve(cost["Warship"])
       ELSE gold > cost["Warship"]
  ELSE IF impl = "execution" THEN CanAffordWithReserve(PerceivedCost(type))
       ELSE ~(gold < PerceivedCost(type))

\* Affordable, type by type (nothing one run of the loop does changes it).
Affordability == [t \in StructureTypes \cup {"Warship"} |-> Affordable(t)]

\* maybeSpawnStructure(type) / maybeSpawnWarship() returns true (lucky: the
\* random.chance(50) that opens the warship branch).
Spawns(type, lucky, affordable) ==
  IF type = "Warship"
  THEN lucky /\ units["Port"] > 0 /\ units["Warship"] = 0 /\ affordable[type]
       /\ site[type]
  ELSE affordable[type] /\ site[type]

\* The position in `order` handleUnits / recommend stops at (0: it runs through).
FirstSpawnTakesLast(order, lucky, affordable) ==
  LET hits == {i \in 1..Len(order) : Spawns(order[i], lucky, affordable)}
  IN IF hits = {} THEN 0 ELSE CHOOSE i \in hits : \A j \in hits : j <= i

FirstSpawn(order, lucky, affordable) ==
  LET hits == {i \in 1..Len(order) : Spawns(order[i], lucky, affordable)}
  IN IF hits = {} THEN 0 ELSE CHOOSE i \in hits : \A j \in hits : i <= j

\* The entries of `order` evaluated before the loop returns at position i.
Evaluated(order, i) ==
  {order[j] : j \in 1..(IF i = 0 THEN Len(order) ELSE i)}

\* The random draws one run of the loop may take, counted up to MaxDraws:
\* one for the warship chance; more than MaxDraws once a territory sample
\* (randTerritoryTileArray, 25 tiles of two draws and more) or the open
\* warship branch is reached; a coastal sample draws only if the nation has
\* more than 25 coastal border tiles.
EconomyDraws(ev, lucky, affordable) ==
  LET territorySample == \E t \in ev \ {"Warship", "Port"} : affordable[t]
      warshipBranch == /\ "Warship" \in ev /\ lucky /\ units["Port"] > 0
                       /\ units["Warship"] = 0 /\ affordable["Warship"]
      chanceDraw == IF "Warship" \in ev THEN 1 ELSE 0
  IN IF territorySample \/ warshipBranch THEN {MaxDraws}
     ELSE IF "Port" \in ev /\ affordable["Port"] THEN {chanceDraw, MaxDraws}
     ELSE {chanceDraw}

\* What one run of the loop leaves behind when it stops at position i.
EconomyOutcome(order, i, lucky, d) ==
  [out |-> IF i = 0 THEN <<>>
           ELSE <<[kind |-> "Construction", type |-> order[i]]>>,
   type |-> IF i = 0 THEN "none" ELSE order[i],
   lucky |-> lucky,
   draws |-> d]

\* The outcomes of the loop over `order` for a warship chance that comes up
\* `lucky`.
BuildLoop(order, lucky, affordable) ==
  UNION {{EconomyOutcome(order, i, lucky, d)
            : d \in EconomyDraws(Evaluated(order, i), lucky, affordable)}
           : i \in {FirstSpawn(order, lucky, affordable)}}

\* handleUnits() / EconomyAdvisor.recommend() with its execute(): the outcomes
\* the random stream allows.  `lucky` records a warship chance that came up
\* true where that opened the branch.
HandleUnits ==
  UNION {BuildLoop(order, lucky, affordable)
           : order \in {GetBuildOrder},
             affordable \in {Affordability},
             lucky \in IF /\ units["Port"] > 0 /\ units["Warship"] = 0
                          /\ "Warship" \in SetOfOrder(GetBuildOrder)
                       THEN BOOLEAN ELSE {FALSE}}
\* ------------------------------------------------------- arraySampler
\* if (array.length <= sampleSize) yield* array
ReturnsAll(a, sampleSize) == Len(a) <= sampleSize

\* remaining.delete(t)
RemainingKept(remaining, t) == remaining

RemainingAfter(remaining, t) == remaining \ {t}

\* new Set<T>(array)
SetOf(a) == {a[i] : i \in 1..Len(a)}

\* random.randFromSet(remaining): some element of the set.
RandFromSet(remaining) == remaining

\* The call, up to the first test of the loop.
SamplerCall ==
  /\ smpPc = "call"
  /\ IF ReturnsAll(smpArray, smpSize)
     THEN /\ smpOut' = smpArray
          /\ smpPc' = "done"
          /\ UNCHANGED <<smpRemaining, smpLeft>>
     ELSE /\ smpRemaining' = SetOf(smpArray)
          /\ smpLeft' = smpSize
          /\ smpPc' = "loop"
          /\ UNCHANGED smpOut
  /\ UNCHANGED <<smpArray, smpSize, smpDraws, sst, rtt, vtq>>
  /\ UNCHANGED <<agentVars, gameVars, ghostVars, phase, horizon>>

\* while (sampleSize--) { t = randFromSet(remaining); remaining.delete(t); yield t }
SamplerLoop ==
  /\ smpPc = "loop"
  /\ IF smpLeft = 0
     THEN /\ smpPc' = "done"
          /\ smpLeft' = smpLeft - 1
          /\ UNCHANGED <<smpRemaining, smpOut, smpDraws>>
     ELSE \E t \in RandFromSet(smpRemaining) :
            /\ smpLeft' = smpLeft - 1
            /\ smpRemaining' = RemainingAfter(smpRemaining, t)
            /\ smpOut' = Append(smpOut, t)
            /\ smpDraws' = smpDraws + 1
            /\ smpPc' = "loop"
  /\ UNCHANGED <<smpArray, smpSize, sst, rtt, vtq>>
  /\ UNCHANGED <<agentVars, gameVars, ghostVars, phase, horizon>>


\* ------------------------------------------------- structureSpawnTile
\* No call is being followed.
NoSstCall ==
  [pc |-> "idle", tiles |-> <<>>, valueFunction |-> <<>>, canBuild |-> {},
   i |-> 0, bestTile |-> NoTile, bestValue |-> 0]

\* if (tiles.length === 0) return null; ...; let bestTile = null; let bestValue = 0
SstCall ==
  /\ sst.pc = "call"
  /\ sst' = [sst EXCEPT !.pc = IF Len(sst.tiles) = 0 THEN "done" ELSE "loop"]
  /\ UNCHANGED <<smpArray, smpSize, smpLeft, smpRemaining, smpOut, smpDraws, smpPc, rtt, vtq>>
  /\ UNCHANGED <<agentVars, gameVars, ghostVars, phase, horizon>>

\* One pass of `for (const t of tiles)`, for the tile t with value v.
SstPass(t, v) ==
  IF v <= sst.bestValue /\ sst.bestTile # NoTile THEN sst
  ELSE IF t \notin sst.canBuild THEN sst
  ELSE [sst EXCEPT !.bestTile = t, !.bestValue = v]

\* for (const t of tiles) { ... } return bestTile
SstLoop ==
  /\ sst.pc = "loop"
  /\ IF sst.i = Len(sst.tiles)
     THEN sst' = [sst EXCEPT !.pc = "done"]
     ELSE sst' = [SstPass(sst.tiles[sst.i + 1], sst.valueFunction[sst.tiles[sst.i + 1]])
                    EXCEPT !.i = sst.i + 1]
  /\ UNCHANGED <<smpArray, smpSize, smpLeft, smpRemaining, smpOut, smpDraws, smpPc, rtt, vtq>>
  /\ UNCHANGED <<agentVars, gameVars, ghostVars, phase, horizon>>

\* ------------------------------------------------ randTerritoryTileArray
NoRttCall ==
  [pc |-> "idle", numTiles |-> 0, owned |-> {},
   boundingBox |-> [min |-> <<0, 0>>, max |-> <<0, 0>>],
   i |-> 0, tries |-> 0, tiles |-> <<>>, draws |-> 0]

\* calculateBoundingBox(game, borderTiles): the least and greatest x and y.
CalculateBoundingBox(borderTiles) ==
  [min |-> <<CHOOSE x \in {t[1] : t \in borderTiles} : \A t \in borderTiles : x <= t[1],
             CHOOSE y \in {t[2] : t \in borderTiles} : \A t \in borderTiles : y <= t[2]>>,
   max |-> <<CHOOSE x \in {t[1] : t \in borderTiles} : \A t \in borderTiles : x >= t[1],
             CHOOSE y \in {t[2] : t \in borderTiles} : \A t \in borderTiles : y >= t[2]>>]

\* random.nextInt(min, max) where the range may be empty: min then.
RandCoordinate(min, max) == IF min < max THEN NextInt(min, max) ELSE {min}

\* for (let i = 0; i < numTiles; i++) { const tile = randTerritoryTile(...)
RttFor ==
  /\ rtt.pc = "for"
  /\ rtt' = IF rtt.i < rtt.numTiles
            THEN [rtt EXCEPT !.pc = "try", !.tries = 0]
            ELSE [rtt EXCEPT !.pc = "done"]
  /\ UNCHANGED <<smpArray, smpSize, smpLeft, smpRemaining, smpOut, smpDraws, smpPc, sst, vtq>>
  /\ UNCHANGED <<agentVars, gameVars, ghostVars, phase, horizon>>

\* One pass of randTerritoryTile's loop for the draws randX, randY: the call
\* goes on, or returns the tile, which the caller pushes.
RttPassAnyOwner(randX, randY) ==
  IF ~OnMap(<<randX, randY>>)
  THEN [rtt EXCEPT !.tries = rtt.tries + 1, !.draws = rtt.draws + 1]
  ELSE [rtt EXCEPT !.tiles = Append(rtt.tiles, <<randX, randY>>),
                   !.i = rtt.i + 1, !.pc = "for", !.draws = rtt.draws + 1]

RttPass(randX, randY) ==
  IF ~OnMap(<<randX, randY>>)
  THEN [rtt EXCEPT !.tries = rtt.tries + 1, !.draws = rtt.draws + 1]
  ELSE IF <<randX, randY>> \in rtt.owned
    THEN [rtt EXCEPT !.tiles = Append(rtt.tiles, <<randX, randY>>),
                     !.i = rtt.i + 1, !.pc = "for", !.draws = rtt.draws + 1]
  ELSE [rtt EXCEPT !.tries = rtt.tries + 1, !.draws = rtt.draws + 1]

\* for (let i = 0; i < 100; i++) { ... } return null
RttTry ==
  /\ rtt.pc = "try"
  /\ IF ~(rtt.tries < 100)
     THEN rtt' = [rtt EXCEPT !.i = rtt.i + 1, !.pc = "for"]
     ELSE \E randX \in RandCoordinate(rtt.boundingBox.min[1], rtt.boundingBox.max[1]),
             randY \in RandCoordinate(rtt.boundingBox.min[2], rtt.boundingBox.max[2]) :
            rtt' = RttPass(randX, randY)
  /\ UNCHANGED <<smpArray, smpSize, smpLeft, smpRemaining, smpOut, smpDraws, smpPc, sst, vtq>>
  /\ UNCHANGED <<agentVars, gameVars, ghostVars, phase, horizon>>

\* ------------------------------------------- getValidMirvTargetPlayers
\* validAt[p]: the last game tick at which p passed the filter.
NoTargetsCall ==
  [pc |-> "idle", called |-> FALSE, players |-> {}, refiltered |-> FALSE,
   validAt |-> [o \in Opp |-> -1]]

\* One call of getValidMirvTargetPlayers() at the current game tick.
GetValidMirvTargetPlayersCall ==
  /\ vtq.pc = "on"
  /\ vtq' = [vtq EXCEPT !.called = TRUE, !.players = GetValidMirvTargetPlayers,
                        !.refiltered = ~CacheFresh]
  /\ mirvTargetsCache' = CacheAfterQuery
  /\ UNCHANGED <<impl, attackRate, attackTick, player, behavior, active, rngDraws,
                 embargoMalusApplied, lastMIRVSent, lastEmojiSent, lastNukeSent>>
  /\ UNCHANGED <<smpArray, smpSize, smpLeft, smpRemaining, smpOut, smpDraws, smpPc,
                 sst, rtt>>
  /\ UNCHANGED <<gameVars, ghostVars, phase, horizon>>

\* A game tick between two calls: an opponent may be eliminated (mg.players()
\* loses it; the elimination of one target is followed); types and teams are fixed for the
\* game.  What the last call returned is gone with its tick.
GameTickPlayers ==
  /\ vtq.pc = "on"
  /\ ticks < horizon
  /\ ticks' = ticks + 1
  /\ \E dead \in {{}} \cup {{o} : o \in {p \in ValidTargetsNow :
                                    \A q \in Opp : vtq.validAt[q] \in {-1, ticks}}} :
       oppAlive' = [o \in Opp |-> oppAlive[o] /\ o \notin dead]
  /\ UNCHANGED <<spawnPhase, inGame, alive, execs, relationDelta, relation,
                 myEmbargo, oppAllied, selfVars, oppEmbargo, oppType, oppTeam,
                 oppGold, oppTerritory, oppInbound, mirvBuildable, mapVars>>
  /\ vtq' = [vtq EXCEPT !.called = FALSE, !.players = {}, !.refiltered = FALSE,
                        !.validAt =
               [o \in Opp |-> IF o \in ValidTargetsNow' THEN ticks' ELSE vtq.validAt[o]]]
  /\ UNCHANGED <<smpArray, smpSize, smpLeft, smpRemaining, smpOut, smpDraws, smpPc,
                 sst, rtt>>
  /\ UNCHANGED <<agentVars, ghostVars, phase, horizon>>
\* ------------------------------------------------------- land ownership
\* mg.owner(t), as a player id (NoPlayer: unclaimed land).
Owner(t) ==
  IF t \in enclaves \/ t[1] >= frontX THEN Me
  ELSE IF t[2] >= southY THEN southOwner
  ELSE 1

Abs(n) == IF n < 0 THEN 0 - n ELSE n

\* boundingBoxTiles(mg, center, radius): the tiles on the edges of the square
\* of that radius around the centre that lie on the map.
BoundingBoxTiles(center, radius) ==
  {t \in ({<<x, y>> : x \in (center[1] - radius)..(center[1] + radius),
                      y \in {center[2] - radius, center[2] + radius}}
          \cup {<<x, y>> : x \in {center[1] - radius, center[1] + radius},
                           y \in (center[2] - radius)..(center[2] + radius)}) :
     OnMap(t)}

\* mg.euclideanDistSquared(a, b)
EuclideanDistSquared(a, b) ==
  (a[1] - b[1]) * (a[1] - b[1]) + (a[2] - b[2]) * (a[2] - b[2])

\* euclDistFN(root, dist, false)(mg, t)
EuclDist(root, dist, t) == EuclideanDistSquared(root, t) <= dist * dist

\* The owners of the land next to the agent's border tiles: the column west
\* of its strip and the neighbours of its enclaves.
EnemyBorder ==
  {t \in ({<<frontX - 1, y>> : y \in 0..(MapSize - 1)}
          \cup UNION {{<<e[1] - 1, e[2]>>, <<e[1] + 1, e[2]>>,
                       <<e[1], e[2] - 1>>, <<e[1], e[2] + 1>>} : e \in enclaves}) :
     OnMap(t) /\ Owner(t) # Me}

BorderOwners == {Owner(t) : t \in EnemyBorder}

\* ----------------------------------------------------- conventional nukes
NukeTargetTypes == {"City", "DefensePost", "MissileSilo", "Port", "SAMLauncher"}

\* other.units(City, DefensePost, MissileSilo, Port, SAMLauncher)
TargetStructures(other) ==
  SelectSeq(structures,
            LAMBDA u : u.owner = other /\ u.type \in NukeTargetTypes)

\* removeOldNukeEvents() with `if` for `while`: at most one shift().
RemoveOldNukeEventsOnce(sent) ==
  IF Len(sent) > 0 /\ sent[1].tick + 500 < ticks THEN Tail(sent) ELSE sent

\* removeOldNukeEvents(): shift() while the oldest entry is older than 500.
RECURSIVE RemoveOldNukeEvents(_)
RemoveOldNukeEvents(sent) ==
  IF Len(sent) > 0 /\ sent[1].tick + 500 < ticks
  THEN RemoveOldNukeEvents(Tail(sent))
  ELSE sent

\* const range = nukeType === UnitType.HydrogenBomb ? 60 : 15
NukeRange(nukeType) == IF nukeType = "HydrogenBomb" THEN 60 ELSE 15

\* The ownership test of the candidate loop: every tile of the box at the
\* full range and of the box at floor(range / 2) is owned by `other`.
AdmissibleFullRangeOnly(tile, other, range) ==
  \A t \in BoundingBoxTiles(tile, range) : Owner(t) = other

Admissible(tile, other, range) ==
  \A t \in BoundingBoxTiles(tile, range) \cup BoundingBoxTiles(tile, range \div 2) :
    Owner(t) = other

\* The value of one structure in the damage radius.
UnitValue(type) ==
  CASE type = "City" -> 25000
    [] type = "DefensePost" -> 5000
    [] type = "MissileSilo" -> 50000
    [] type = "Port" -> 10000
    [] OTHER -> 0

\* The whole-number part of the score: structures within 25 tiles, minus
\* 50,000 per SAM launcher within 50, minus 1,000,000 per remembered launch
\* within 25.
TileValue(tile, targets, sent) ==
  SumSeq([i \in 1..Len(targets) |->
            IF EuclDist(tile, 25, targets[i].tile)
            THEN UnitValue(targets[i].type) ELSE 0], Len(targets))
  - 50000 * Cardinality({i \in 1..Len(targets) :
                           /\ targets[i].type = "SAMLauncher"
                           /\ EuclDist(tile, 50, targets[i].tile)})
  - 1000000 * Cardinality({i \in 1..Len(sent) : EuclDist(tile, 25, sent[i].tile)})

\* The squared distance from the tile to the closest silo of the agent.
ClosestSiloDistSquared(tile) ==
  CHOOSE d \in {EuclideanDistSquared(tile, siloTiles[i]) : i \in 1..Len(siloTiles)} :
    \A i \in 1..Len(siloTiles) : d <= EuclideanDistSquared(tile, siloTiles[i])

\* nukeTileScore / calculateNukeTileScore.  The score is v - 30 * sqrt(d2) in
\* FakeHumanExecution and v in MilitaryAdvisor; it is kept as <<v, d2>>
\* (d2 = 0 where the distance term is absent).
NukeTileScore(tile, targets, sent) ==
  <<TileValue(tile, targets, sent),
    IF impl = "execution" THEN ClosestSiloDistSquared(tile) ELSE 0>>

\* a > b for two scores.  v is a multiple of 5,000 and 30 * sqrt(d2) stays
\* below 5,000 on a map of this size, so the whole-number parts decide unless
\* they are equal.
ScoreGreater(a, b) == a[1] > b[1] \/ (a[1] = b[1] /\ a[2] < b[2])

\* The tiles randTerritoryTileArray(10) may return: tiles the agent owns.
SampleSites ==
  enclaves \cup (IF frontX < MapSize THEN {<<frontX, 0>>} ELSE {})

\* Its results, as far as the candidate loop can tell them apart: the
\* distinct tiles in the order they were first drawn.
TerritorySamples ==
  {s \in UNION {[1..n -> SampleSites] : n \in 0..MaxNukeSamples} :
     \A i, j \in 1..Len(s) : i # j => s[i] # s[j]}

\* new Set(allTiles), in iteration order: first occurrences only.
RECURSIVE Distinct(_, _)
Distinct(s, i) ==
  IF i = 0 THEN <<>>
  ELSE IF \E j \in 1..(i - 1) : s[j] = s[i] THEN Distinct(s, i - 1)
  ELSE Append(Distinct(s, i - 1), s[i])

\* The candidate loop from candidate i on, `best` being [tile, value] so far.
RECURSIVE BestFrom(_, _, _, _, _, _, _)
BestFrom(cands, i, best, other, nukeType, targets, sent) ==
  IF i > Len(cands) THEN best
  ELSE IF ~Admissible(cands[i], other, NukeRange(nukeType))
    THEN BestFrom(cands, i + 1, best, other, nukeType, targets, sent)
  ELSE IF cands[i] \in unbuildable
    THEN BestFrom(cands, i + 1, best, other, nukeType, targets, sent)
  ELSE IF ScoreGreater(NukeTileScore(cands[i], targets, sent), best.value)
    THEN BestFrom(cands, i + 1,
                  [tile |-> cands[i],
                   value |-> NukeTileScore(cands[i], targets, sent)],
                  other, nukeType, targets, sent)
  ELSE BestFrom(cands, i + 1, best, other, nukeType, targets, sent)

\* findBestNukeTarget / the loop of maybeSendNuke: bestTile, NoTile for null.
FindBestNukeTarget(other, nukeType, samples, sent) ==
  BestFrom(Distinct(samples \o [i \in 1..Len(TargetStructures(other)) |->
                                  TargetStructures(other)[i].tile],
                    Len(samples) + Len(TargetStructures(other))),
           1, [tile |-> NoTile, value |-> <<0, 0>>],
           other, nukeType, TargetStructures(other), sent).tile

\* if (bestTile !== null) in FakeHumanExecution, if (!bestTile) return in
\* MilitaryAdvisor, where the tile numbered 0 counts as none.
Launches(bestTile) ==
  /\ bestTile # NoTile
  /\ impl = "coordinator" => TileRef(bestTile) # 0

NukeOutcome(sent, out, draws, target, type, tile, launched) ==
  [nukes |-> sent, out |-> out, draws |-> draws,
   query |-> [tick |-> ticks, target |-> target, type |-> type, tile |-> tile,
              launched |-> launched]]

\* this.player.gold() > this.cost(HydrogenBomb) ? HydrogenBomb : AtomBomb
NukeType == IF gold > cost["HydrogenBomb"] THEN "HydrogenBomb" ELSE "AtomBomb"

\* The rest of maybeSendNuke once the gates are passed and the candidates'
\* best tile is known: sendNuke pushes [tick, tile] and adds the execution.
SendBest(other, bestTile, sent) ==
  IF Launches(bestTile)
  THEN NukeOutcome(Append(sent, [tick |-> ticks, tile |-> bestTile]),
                   <<[kind |-> "Nuke", type |-> NukeType, target |-> other,
                      tile |-> bestTile]>>,
                   MaxDraws, other, NukeType, bestTile, TRUE)
  ELSE NukeOutcome(sent, <<>>, MaxDraws, other, NukeType, bestTile, FALSE)

\* maybeSendNuke(other) without the test of the enemy's type.
MaybeSendNukeAtBots(other) ==
  IF \/ units["MissileSilo"] = 0 \/ gold < cost["AtomBomb"]
     \/ IsOnSameTeam(other)
  THEN {NukeOutcome(lastNukeSent, <<>>, 0, NoPlayer, "none", NoTile, FALSE)}
  ELSE {SendBest(other, FindBestNukeTarget(other, NukeType, samples, sent), sent) :
          samples \in TerritorySamples, sent \in {RemoveOldNukeEvents(lastNukeSent)}}

\* maybeSendNuke(other): the outcomes the territory sample allows.
MaybeSendNuke(other) ==
  IF \/ units["MissileSilo"] = 0 \/ gold < cost["AtomBomb"]
     \/ oppType[other] = "Bot" \/ IsOnSameTeam(other)
  THEN {NukeOutcome(lastNukeSent, <<>>, 0, NoPlayer, "none", NoTile, FALSE)}
  ELSE {SendBest(other, FindBestNukeTarget(other, NukeType, samples, sent), sent) :
          samples \in TerritorySamples, sent \in {RemoveOldNukeEvents(lastNukeSent)}}

\* ------------------------------------------------------------ maybeAttack
\* The land owners a random boat may be sent to: owners of charted land.
BoatTargets ==
  (IF frontX > 0 /\ southY > 0 THEN {1} ELSE {})
    \cup (IF frontX > 0 /\ southY < MapSize THEN {southOwner} ELSE {})

\* sendBoatRandomly() / recommendBoatAttack() and its execute(): nothing
\* without an ocean shore or a target tile, else one transport ship.
SendBoatRandomly ==
  IF ~shore THEN {<<>>}
  ELSE {<<>>} \cup {<<[kind |-> "Boat", target |-> o]>> : o \in BoatTargets}

\* this.behavior.sendAttack(target): an attack if the troops allow one.
SendAttack(target) == {<<>>, <<[kind |-> "Attack", target |-> target]>>}

\* maybeSendBoatAttack(other) / recommendBoatAttackOnEnemy(other).execute();
\* only the former returns at once for a friendly player.
MaybeSendBoatAttack(other) ==
  IF /\ impl = "execution" => ~IsFriendly(other)
     /\ shore /\ seaRoute[other] THEN <<[kind |-> "Boat", target |-> other]>>
  ELSE <<>>

\* this.behavior.selectEnemy(enemies): a player of the game or null.
SelectEnemy == Others \cup {NoPlayer}

MilitaryOutcome(emoji, nukes, out, draws, query) ==
  [emoji |-> emoji, nukes |-> nukes, out |-> out, draws |-> draws,
   query |-> query]

\* What maybeAttack leaves when it returns before maybeSendNuke.
EarlyReturn(emoji, out) ==
  MilitaryOutcome(emoji, lastNukeSent, out, IF shore THEN MaxDraws ELSE 1,
                  nukeQuery)

\* maybeSendEmoji(enemy); maybeSendNuke(enemy); then the direct attack or the
\* boat attack.
Engage(enemy, emoji, before) ==
  {MilitaryOutcome(em.map, nuke.nukes, before \o em.out \o nuke.out \o attack,
                   MaxDraws, nuke.query) :
     em \in {MaybeSendEmoji(enemy, emoji)},
     nuke \in MaybeSendNuke(enemy),
     attack \in IF enemy \in BorderOwners THEN SendAttack(enemy)
                ELSE {MaybeSendBoatAttack(enemy)}}

\* From selectEnemy on, `before` being what the alliance step added.
SelectAndEngage(emoji, before) ==
  UNION {IF enemy = NoPlayer THEN {EarlyReturn(emoji, before)}
         ELSE Engage(enemy, emoji, before) : enemy \in SelectEnemy}

\* The alliance step taken (chance(20) hit): a request to a random border
\* player if the engine allows one.  MilitaryAdvisor.recommend() returns the
\* request as its recommendation; maybeAttack goes on.
AllianceStep(emoji) ==
  UNION {IF ~canAlly[toAlly] THEN SelectAndEngage(emoji, <<>>)
         ELSE IF impl = "coordinator"
           THEN {EarlyReturn(emoji, <<[kind |-> "AllianceRequest",
                                       target |-> toAlly]>>)}
         ELSE SelectAndEngage(emoji, <<[kind |-> "AllianceRequest",
                                        target |-> toAlly]>>) :
           toAlly \in BorderOwners}

\* maybeAttack() / MilitaryAdvisor.recommend() and the execute() of what it
\* recommends, on the emoji map the strike step left: the outcomes the
\* random draws, the enemy selection and the troops allow.
MaybeAttack(emoji) ==
  IF EnemyBorder = {} THEN
    {EarlyReturn(emoji, <<>>)} \cup {EarlyReturn(emoji, b) : b \in SendBoatRandomly}
  ELSE
    {EarlyReturn(emoji, b) : b \in SendBoatRandomly}
      \cup (IF NoPlayer \in BorderOwners
            THEN {EarlyReturn(emoji, a) : a \in SendAttack(NoPlayer)}
            ELSE AllianceStep(emoji) \cup SelectAndEngage(emoji, <<>>))
\* ---------------------------------------------------------- tick handler
\* One pass of randomSpawnLand()'s loop for the draws x, y and chance(2): the
\* tile it returns, NoTile where it goes on to the next try.
SpawnTryAnyOwner(x, y, skip) ==
  IF ~OnMap(<<x, y>>) THEN NoTile
  ELSE IF <<x, y>> \in landTiles
    THEN (IF <<x, y>> \in mountainTiles /\ skip THEN NoTile ELSE <<x, y>>)
  ELSE NoTile

SpawnTry(x, y, skip) ==
  IF ~OnMap(<<x, y>>) THEN NoTile
  ELSE IF <<x, y>> \in landTiles /\ <<x, y>> \notin claimedTiles
    THEN (IF <<x, y>> \in mountainTiles /\ skip THEN NoTile ELSE <<x, y>>)
  ELSE NoTile

spawnDelta == 25

\* What one pass can come to, over the draws of x, y and chance(2).
SpawnTries ==
  {SpawnTry(x, y, skip) :
     x \in NextInt(spawnCell[1] - spawnDelta, spawnCell[1] + spawnDelta),
     y \in NextInt(spawnCell[2] - spawnDelta, spawnCell[2] + spawnDelta),
     skip \in BOOLEAN}

\* while (tries < 50) { tries++; ... } return null: the results the loop can
\* come to from `tries` passes on.
RECURSIVE RandomSpawnLandFrom(_, _)
RandomSpawnLandFrom(tries, passes) ==
  IF ~(tries < 50) THEN {NoTile}
  ELSE (passes \ {NoTile})
         \cup (IF NoTile \in passes THEN RandomSpawnLandFrom(tries + 1, passes) ELSE {})

\* randomSpawnLand(): the tiles it can return, NoTile for null.
RandomSpawnLand == RandomSpawnLandFrom(0, SpawnTries)

\* tick() in the spawn phase: at most one SpawnExecution, then return.
SpawnTick(rl) ==
  /\ execs' = IF rl # NoTile THEN Append(execs, [kind |-> "Spawn", tile |-> rl]) ELSE execs
  /\ rngDraws' = Drawn(rngDraws, 2)
  /\ UNCHANGED <<player, binds, behavior, active, advisorVars>>

\* if (this.player === null) { this.player = mg.players().find(...) ?? null; ... }
\* where the handler goes on: the nation's player is in the game.
BindPlayerEveryTick ==
  /\ player' = TRUE
  /\ binds' = IF binds < 2 THEN binds + 1 ELSE binds

BindPlayer ==
  /\ player' = TRUE
  /\ binds' = IF player THEN binds ELSE binds + 1

\* if (!this.player.isAlive()) { this.active = false; return; }
DeadTickStaysActive ==
  /\ BindPlayer
  /\ UNCHANGED <<behavior, active, rngDraws, execs, advisorVars>>

DeadTick ==
  /\ BindPlayer
  /\ active' = FALSE
  /\ UNCHANGED <<behavior, rngDraws, execs, advisorVars>>

\* this.behavior.forceSendAttack(target): the attack is sent whatever the troops.
ForceSendAttack(target) == [kind |-> "Attack", target |-> target, forced |-> TRUE]

\* First live tick: new BotBehavior(...); forceSendAttack(terraNullius); return.
WarmTick ==
  /\ BindPlayer
  /\ behavior' = TRUE
  /\ execs' = Append(execs, ForceSendAttack(NoPlayer))
  /\ UNCHANGED <<active, rngDraws, advisorVars>>

\* The executions one advisors' tick hands to the game, in the order the
\* stages add them: economy, strategic strike, military.
SubmittedMilitaryFirst(eco, mirv, mil) == mil.out \o eco.out \o mirv.out

Submitted(eco, mirv, mil) == eco.out \o mirv.out \o mil.out

\* The advisors' tick: embargo penalties and hostile-embargo enforcement,
\* betrayal, economy, strategic strike, military.
ActiveTick ==
  /\ BindPlayer
  /\ UpdateRelationsFromEmbargos
  /\ HandleEmbargoesToHostileNations
  /\ ConsiderBetrayal
  /\ \E eco \in HandleUnits, mirv \in ConsiderMIRV :
      \E mil \in MaybeAttack(mirv.emoji) :
       /\ execs' = execs \o Submitted(eco, mirv, mil)
       /\ rngDraws' = Drawn(rngDraws, eco.draws + mirv.draws + mil.draws)
       /\ lastNukeSent' = mil.nukes
       /\ nukeQuery' = mil.query
       /\ milQuery' = [tick |-> ticks, out |-> Len(mil.out)]
       /\ ecoQuery' = [tick |-> ticks, type |-> eco.type, lucky |-> eco.lucky]
       /\ reserveSeen' = IF impl = "execution" THEN GetMIRVReserveThreshold ELSE -1
       /\ lastMIRVSent' = mirv.sent
       /\ mirvTargetsCache' = mirv.cache
       /\ lastEmojiSent' = mil.emoji
       /\ mirvQuery' = [tick |-> ticks, result |-> mirv.result,
                        target |-> mirv.target, launched |-> mirv.launched,
                        draws |-> mirv.draws]
       /\ lastLaunch' = IF mirv.launched THEN ticks ELSE lastLaunch
       /\ prevLaunch' = IF mirv.launched THEN lastLaunch ELSE prevLaunch
       /\ lastHesitation' = IF mirv.result = "hesitated" THEN ticks ELSE lastHesitation
  /\ UNCHANGED <<behavior, active>>

\* tick(ticks) without the branch that creates this.behavior and returns.
TickWithoutWarming(t) ==
  IF OffCadence(t) THEN
    UNCHANGED <<player, binds, behavior, active, rngDraws, execs, advisorVars>>
  ELSE IF spawnPhase THEN
    \E rl \in RandomSpawnLand : SpawnTick(rl)
  ELSE IF ~player /\ ~inGame THEN
    UNCHANGED <<player, binds, behavior, active, rngDraws, execs, advisorVars>>
  ELSE IF ~alive THEN DeadTick
  ELSE ActiveTick

\* FakeHumanExecution.tick(ticks) / FakeHumanCoordinator.tick(ticks), ticks = mg.ticks().
Tick(t) ==
  IF OffCadence(t) THEN
    UNCHANGED <<player, binds, behavior, active, rngDraws, execs, advisorVars>>
  ELSE IF spawnPhase THEN
    \E rl \in RandomSpawnLand : SpawnTick(rl)
  ELSE IF ~player /\ ~inGame THEN
    UNCHANGED <<player, binds, behavior, active, rngDraws, execs, advisorVars>>
  ELSE IF ~alive THEN DeadTick
  ELSE IF ~behavior THEN WarmTick
  ELSE ActiveTick

\* The engine calls the execution's tick() while isActive().
AgentTick ==
  /\ phase = "agent"
  /\ active
  /\ Tick(ticks)
  /\ phase' = "engine"
  /\ UNCHANGED <<impl, attackRate, attackTick>>
  /\ UNCHANGED <<ticks, spawnPhase, inGame, alive, selfVars, oppVars, mapVars>>
  /\ UNCHANGED <<samplerVars, horizon>>

\* ------------------------------------------------------------ the engine
Spawned == \E i \in 1..Len(execs) : execs[i].kind = "Spawn"

\* The rest of a game tick: the submitted executions run, the world moves.
EngineCore ==
  /\ phase = "engine" \/ ~active
  /\ ticks < horizon
  /\ phase' = "agent"
  /\ ticks' = ticks + 1
  /\ execs' = <<>>
  /\ UNCHANGED agentVars
  /\ UNCHANGED <<relationDelta, relation, myEmbargo, mapVars, ghostVars,
                 samplerVars, horizon>>

\* Lifecycle of the nation's player: spawned by a SpawnExecution, may die.
LifeStep ==
  /\ spawnPhase' \in {spawnPhase, FALSE}
  /\ inGame' \in (IF inGame THEN {TRUE} ELSE IF Spawned THEN BOOLEAN ELSE {FALSE})
  /\ alive' \in (IF ~inGame' THEN {FALSE} ELSE IF ~inGame THEN {TRUE} ELSE {alive, FALSE})

\* Opponents in the game impose or lift embargoes on the agent.
OppStep ==
  /\ oppEmbargo' \in [Opp -> BOOLEAN]
  /\ \A o \in Opp : ~oppAlive[o] => oppEmbargo'[o] = oppEmbargo[o]

\* A game tick of the lifecycle specification.
GameTickLife ==
  /\ EngineCore
  /\ LifeStep
  /\ OppStep
  /\ UNCHANGED <<selfVars, oppAlive, oppType, oppTeam, oppAllied, oppGold, oppTerritory,
                 oppInbound, mirvBuildable>>

\* A game tick in which an opponent's MIRV may take off for, or land on, the
\* agent.
GameTickMirv ==
  /\ EngineCore
  /\ oppInbound' \in {oppInbound, [o \in Opp |-> FALSE], [o \in Opp |-> o = 1]}
  /\ UNCHANGED <<spawnPhase, inGame, alive, selfVars, oppAlive, oppEmbargo,
                 oppType, oppTeam, oppAllied, oppGold, oppTerritory, mirvBuildable>>

\* A game tick that changes nothing the agent reads.
GameTickStill ==
  /\ EngineCore
  /\ UNCHANGED <<spawnPhase, inGame, alive, selfVars, oppAllied, oppVars>>

\* A game tick in which the richest opponent's gold may grow.
GoldLevels == {0, 12000000, 25000000, 30000000, 50000000, 90000000}

GameTickGold ==
  /\ EngineCore
  /\ \E r \in Others, g \in GoldLevels :
       /\ \A o \in Others : Gold(o) <= Gold(r)
       /\ g >= Gold(r)
       /\ oppGold' = [oppGold EXCEPT ![r] = g]
  /\ UNCHANGED <<spawnPhase, inGame, alive, selfVars, oppAlive, oppEmbargo,
                 oppType, oppTeam, oppAllied, oppTerritory, oppInbound, mirvBuildable>>


\* A game tick in which the MirvExecution handed over in it takes its cost
\* from the owner's gold.
GameTickPaid ==
  /\ EngineCore
  /\ gold' = IF \E i \in 1..Len(execs) : execs[i].kind = "MIRV"
             THEN gold - cost["MIRV"] ELSE gold
  /\ UNCHANGED <<spawnPhase, inGame, alive, units, myTiles, myTeam, cost, site,
                 numLandTiles, oppAllied, oppVars>>

\* The values the game may move a relation to between two calls of tick().
RelationLevels == {-60, -40, 0}

\* A game tick in which the game may move the agent's relation with one
\* opponent, and opponent 1 may impose or lift its embargo on the agent.
GameTickRelation ==
  /\ phase = "engine" \/ ~active
  /\ ticks < horizon
  /\ phase' = "agent"
  /\ ticks' = ticks + 1
  /\ execs' = <<>>
  /\ \/ relation' = relation
     \/ \E o \in Others, v \in RelationLevels : relation' = [relation EXCEPT ![o] = v]
  /\ oppEmbargo' \in {oppEmbargo, [oppEmbargo EXCEPT ![1] = ~oppEmbargo[1]]}
  /\ UNCHANGED agentVars
  /\ UNCHANGED <<relationDelta, myEmbargo, oppAllied, mapVars, ghostVars,
                 samplerVars, horizon>>
  /\ UNCHANGED <<spawnPhase, inGame, alive, selfVars, oppAlive, oppType, oppTeam,
                 oppGold, oppTerritory, oppInbound, mirvBuildable>>

\* A game tick of the wiring specification: the nation's player is spawned and
\* may die; while it lives its first missile silo may get built, the treasury
\* having grown to the price of an atom bomb.
GameTickBuild ==
  /\ phase = "engine" \/ ~active
  /\ ticks < horizon
  /\ phase' = "agent"
  /\ ticks' = ticks + 1
  /\ execs' = <<>>
  /\ LifeStep
  /\ \E built \in (IF alive' /\ units["MissileSilo"] = 0 THEN BOOLEAN ELSE {FALSE}) :
       /\ units' = IF built THEN [units EXCEPT !["MissileSilo"] = 1] ELSE units
       /\ siloTiles' = IF built THEN <<<<MapSize - 3, 50>>>> ELSE siloTiles
       /\ gold' = IF built THEN cost["AtomBomb"] ELSE gold
  /\ UNCHANGED agentVars
  /\ UNCHANGED <<relationDelta, relation, myEmbargo, oppAllied, oppVars, ghostVars,
                 samplerVars, horizon>>
  /\ UNCHANGED <<myTiles, myTeam, cost, site, numLandTiles>>
  /\ UNCHANGED <<frontX, southY, southOwner, enclaves, structures, unbuildable, shore,
                 seaRoute, canAlly, spawnCell, landTiles, claimedTiles, mountainTiles>>
\* ------------------------------------------------------ specifications
AttackRates == {40}

\* mg.unitInfo(type).cost(player), as the game's configuration sets it.
UnitCost ==
  [t \in UnitTypes |->
     CASE t \in {"City", "Port", "Factory"} -> 125000
       [] t = "DefensePost" -> 50000
       [] t = "Warship" -> 250000
       [] t = "SAMLauncher" -> 1500000
       [] t = "MissileSilo" -> 1000000
       [] t = "AtomBomb" -> 750000
       [] t = "HydrogenBomb" -> 5000000
       [] t = "MIRV" -> 35000000]

\* The first k opponents are in the game.
FirstAlive(k) == [o \in Opp |-> o <= k]

NoCache == [set |-> FALSE, tick |-> 0, players |-> {}]

\* The private state after construction and init(mg).
InitAgent ==
  /\ impl \in {"execution", "coordinator"}
  /\ attackRate \in AttackRates
  /\ attackTick \in {0, attackRate - 1}
  /\ player = FALSE
  /\ behavior = FALSE
  /\ active = TRUE
  /\ rngDraws = 0
  /\ embargoMalusApplied = {}
  /\ lastMIRVSent = <<>>
  /\ mirvTargetsCache = NoCache
  /\ lastEmojiSent = <<>>
  /\ lastNukeSent = <<>>

\* No advisor has run yet.
InitHistory ==
  /\ binds = IF player THEN 1 ELSE 0
  /\ dipCalls = {}
  /\ embAtRun = <<>>
  /\ dipSame = FALSE
  /\ embLifted = {}
  /\ dipQuery = [tick |-> -1, rec |-> "never", target |-> NoPlayer]
  /\ mirvQuery = [tick |-> -1, result |-> "never", target |-> NoPlayer,
                  launched |-> FALSE, draws |-> 0]
  /\ lastLaunch = -1
  /\ prevLaunch = -1
  /\ lastHesitation = -1
  /\ ecoQuery = [tick |-> -1, type |-> "none", lucky |-> FALSE]
  /\ reserveSeen = -1
  /\ nukeQuery = [tick |-> -1, target |-> NoPlayer, type |-> "none",
                  tile |-> NoTile, launched |-> FALSE]
  /\ milQuery = [tick |-> -1, out |-> 0]

\* No call of arraySampler is being followed.
InitNoArraySampler ==
  /\ smpArray = <<>>
  /\ smpSize = 0
  /\ smpLeft = 0
  /\ smpRemaining = {}
  /\ smpOut = <<>>
  /\ smpDraws = 0
  /\ smpPc = "done"

\* No call of a utility is being followed.
InitNoSampler ==
  /\ InitNoArraySampler
  /\ sst = NoSstCall
  /\ rtt = NoRttCall
  /\ vtq = NoTargetsCall

\* Maps of the spawn phase: free land at the edge of the spawn window and
\* beyond it, a claimed tile and a mountain; no free land in the window; a
\* window that reaches off the map, with one mountain tile to take.
SpawnMaps ==
  {[cell |-> <<30, 30>>,
    land |-> {<<5, 30>>, <<4, 30>>, <<54, 54>>, <<55, 30>>, <<30, 30>>, <<40, 40>>},
    claimed |-> {<<30, 30>>}, mountain |-> {<<40, 40>>}],
   [cell |-> <<30, 30>>, land |-> {<<30, 30>>, <<4, 30>>},
    claimed |-> {<<30, 30>>}, mountain |-> {}],
   [cell |-> <<10, 90>>, land |-> {<<0, 99>>}, claimed |-> {},
    mountain |-> {<<0, 99>>}]}

InitSpawnMap ==
  \E m \in SpawnMaps :
    /\ spawnCell = m.cell /\ landTiles = m.land
    /\ claimedTiles = m.claimed /\ mountainTiles = m.mountain

\* After the spawn phase randomSpawnLand() is not called any more.
InitSpawnOver ==
  /\ spawnCell = <<0, 0>> /\ landTiles = {} /\ claimedTiles = {} /\ mountainTiles = {}

\* The agent's player is bound and its first attack is out (the state after
\* the tick that created this.behavior); the game is at the agent's k-th
\* cadence tick after its first.
InitMidGame(k) ==
  /\ impl \in {"execution", "coordinator"}
  /\ attackRate \in AttackRates
  /\ attackTick \in {0, attackRate - 1}
  /\ player = TRUE
  /\ behavior = TRUE
  /\ active = TRUE
  /\ rngDraws = MaxDraws
  /\ embargoMalusApplied = {}
  /\ lastMIRVSent = <<>>
  /\ mirvTargetsCache = NoCache
  /\ lastEmojiSent = <<>>
  /\ lastNukeSent = <<>>
  /\ ticks = attackTick + attackRate * k
  /\ phase = "agent"
  /\ spawnPhase = FALSE
  /\ inGame = TRUE
  /\ alive = TRUE
  /\ execs = <<>>
  /\ relationDelta = [o \in Opp |-> 0]
  /\ relation = [o \in Opp |-> IF o = 1 THEN -40 ELSE 0]
  /\ myEmbargo = [o \in Opp |-> FALSE]
  /\ oppEmbargo = [o \in Opp |-> FALSE]

\* A nation without gold or buildings, no teams, fake-human opponents.
InitPoor ==
  /\ gold = 0
  /\ units = [t \in UnitTypes |-> 0]
  /\ site = [t \in UnitTypes |-> FALSE]

\* The agent holds all the charted land (its neighbours are overseas), has no
\* ocean shore, and no opponent has built anything.
InitIsland ==
  /\ frontX = 0
  /\ southY = MapSize
  /\ southOwner = NoPlayer
  /\ enclaves = {}
  /\ structures = <<>>
  /\ siloTiles = [i \in 1..units["MissileSilo"] |-> <<i - 1, 0>>]
  /\ unbuildable = {}
  /\ shore = FALSE
  /\ seaRoute = [o \in Opp |-> FALSE]
  /\ canAlly = [o \in Opp |-> FALSE]

\* The land of an opponent that lives off the charted region: n tiles of the
\* row y = o overseas, in the order the opponent took them.
Overseas(o, n) == [i \in 1..n |-> <<0 - i, o>>]

\* The tiles of the opponents of S.
LandOf(S) == UNION {SetOf(oppTerritory[o]) : o \in S}

InitPlainOpponents ==
  /\ oppType = [o \in Opp |-> "FakeHuman"]
  /\ oppTeam = [o \in Opp |-> NoTeam]
  /\ oppAllied = [o \in Opp |-> FALSE]
  /\ oppGold = [o \in Opp |-> 0]
  /\ oppTerritory = [o \in Opp |-> IF oppAlive[o] THEN Overseas(o, 2) ELSE <<>>]
  /\ InitIsland
  /\ oppInbound = [o \in Opp |-> FALSE]
  /\ mirvBuildable = {}

\* --- the lifecycle, from construction
Init ==
  /\ InitAgent
  /\ InitHistory
  /\ InitSpawnMap
  /\ InitNoSampler
  /\ horizon = MaxTickLife
  /\ ticks = 0
  /\ phase = "agent"
  /\ spawnPhase = TRUE
  /\ inGame = FALSE
  /\ alive = FALSE
  /\ execs = <<>>
  /\ relationDelta = [o \in Opp |-> 0]
  /\ relation = [o \in Opp |-> IF o = 1 THEN -40 ELSE 0]
  /\ myEmbargo = [o \in Opp |-> FALSE]
  /\ oppAlive \in {FirstAlive(2), [o \in Opp |-> o = 2]}
  /\ oppEmbargo = [o \in Opp |-> FALSE]
  /\ InitPoor
  /\ InitPlainOpponents
  /\ myTiles = 100
  /\ myTeam = NoTeam
  /\ cost = UnitCost
  /\ numLandTiles = 1000

Next == AgentTick \/ GameTickLife

Spec == Init /\ [][Next]_vars

\* --- the strike cooldown: a rich nation with a silo among targets
InitMirv ==
  /\ InitMidGame(1)
  /\ InitHistory
  /\ InitSpawnOver
  /\ InitNoSampler
  /\ horizon = MaxTickMirv
  /\ gold = 100000000
  /\ units = [t \in UnitTypes |-> IF t = "MissileSilo" THEN 1 ELSE 0]
  /\ site = [t \in UnitTypes |-> FALSE]
  /\ myTiles = 2
  /\ myTeam = NoTeam
  /\ cost = UnitCost
  /\ numLandTiles = 20
  /\ oppAlive = FirstAlive(2)
  /\ oppType = [o \in Opp |-> IF o = 1 THEN "Human" ELSE "FakeHuman"]
  /\ oppTeam = [o \in Opp |-> NoTeam]
  /\ oppAllied = [o \in Opp |-> FALSE]
  /\ oppGold = [o \in Opp |-> 0]
  /\ oppTerritory \in {[o \in Opp |-> IF o = 1 THEN Overseas(o, n)
                                       ELSE IF o = 2 THEN Overseas(o, 2) ELSE <<>>]
                        : n \in {6, 14}}
  /\ InitIsland
  /\ oppInbound = [o \in Opp |-> FALSE]
  /\ mirvBuildable \in {LandOf({1, 2}), LandOf({2})}

NextMirv == AgentTick \/ GameTickMirv

SpecMirv == InitMirv /\ [][NextMirv]_vars

\* --- target selection: one strike query over a table of opponents
\* What an opponent may look like: tiles owned, player type, whether a MIRV
\* of its is inbound, its team in a team game, and whether it is an ally of
\* the agent in a game without teams.
Profiles ==
  {[tiles |-> 2, type |-> "FakeHuman", inbound |-> FALSE, team |-> 1,
    allied |-> FALSE],
   [tiles |-> 3, type |-> "FakeHuman", inbound |-> FALSE, team |-> 2,
    allied |-> FALSE],
   [tiles |-> 2, type |-> "Human", inbound |-> TRUE, team |-> 2,
    allied |-> FALSE],
   [tiles |-> 8, type |-> "Human", inbound |-> FALSE, team |-> 2,
    allied |-> FALSE],
   [tiles |-> 12, type |-> "Human", inbound |-> FALSE, team |-> 2,
    allied |-> FALSE],
   [tiles |-> 13, type |-> "FakeHuman", inbound |-> FALSE, team |-> 2,
    allied |-> FALSE],
   [tiles |-> 14, type |-> "Human", inbound |-> FALSE, team |-> 1,
    allied |-> FALSE],
   [tiles |-> 14, type |-> "Bot", inbound |-> FALSE, team |-> 2,
    allied |-> FALSE],
   [tiles |-> 14, type |-> "Human", inbound |-> TRUE, team |-> 2,
    allied |-> FALSE],
   [tiles |-> 14, type |-> "Human", inbound |-> FALSE, team |-> 2,
    allied |-> TRUE],
   [tiles |-> 2, type |-> "FakeHuman", inbound |-> TRUE, team |-> 1,
    allied |-> TRUE]}

RECURSIVE SumOver(_, _)
SumOver(f, S) ==
  IF S = {} THEN 0
  ELSE LET x == CHOOSE y \in S : TRUE IN f[x] + SumOver(f, S \ {x})

InitTargets ==
  /\ InitMidGame(2)
  /\ InitHistory
  /\ InitSpawnOver
  /\ InitNoSampler
  /\ horizon = ticks + TickSpan
  /\ gold = 100000000
  /\ units = [t \in UnitTypes |-> IF t = "MissileSilo" THEN 1 ELSE 0]
  /\ site = [t \in UnitTypes |-> FALSE]
  /\ myTiles = 1
  /\ cost = UnitCost
  /\ numLandTiles = 20
  /\ oppAlive = FirstAlive(NumOpp - 1)
  /\ oppGold = [o \in Opp |-> 0]
  /\ InitIsland
  /\ \E teams \in BOOLEAN, prof \in [Opp -> Profiles] :
       /\ \A o \in Opp : ~oppAlive[o] => prof[o].tiles = 2 /\ prof[o].team = 1 /\ ~prof[o].inbound
       /\ myTeam = IF teams THEN 1 ELSE NoTeam
       /\ oppTeam = [o \in Opp |-> IF teams THEN prof[o].team ELSE NoTeam]
       /\ oppAllied = [o \in Opp |-> oppAlive[o] /\ ~teams /\ prof[o].allied]
       /\ oppType = [o \in Opp |-> prof[o].type]
       /\ oppInbound = [o \in Opp |-> oppAlive[o] /\ prof[o].inbound]
       /\ oppTerritory = [o \in Opp |-> IF oppAlive[o] THEN Overseas(o, prof[o].tiles)
                                       ELSE <<>>]
       /\ myTiles + SumOver([o \in Opp |-> Len(oppTerritory[o])], Opp) <= numLandTiles
  /\ mirvBuildable \in {LandOf(Opp), {}}

NextTargets == AgentTick \/ GameTickStill

SpecTargets == InitTargets /\ [][NextTargets]_vars

\* --- the adaptive reserve: gold levels around the thresholds
MyGoldLevels == {0, 35000000, 100000000}

InitReserve ==
  /\ InitMidGame(2)
  /\ InitHistory
  /\ InitSpawnOver
  /\ InitNoSampler
  /\ horizon = ticks + 1      \* the query's tick and the game tick after it
  /\ gold \in MyGoldLevels
  /\ \E silos \in {0, 1} :
       units = [t \in UnitTypes |-> IF t = "MissileSilo" THEN silos ELSE 0]
  /\ site = [t \in UnitTypes |-> FALSE]
  /\ myTiles = 100
  /\ myTeam = NoTeam
  /\ cost = UnitCost
  /\ numLandTiles = 1000
  /\ oppAlive \in {FirstAlive(k) : k \in {0, 1, NumOpp}}
  /\ oppType = [o \in Opp |-> "FakeHuman"]
  /\ oppTeam = [o \in Opp |-> NoTeam]
  /\ oppAllied = [o \in Opp |-> FALSE]
  /\ oppGold \in [Opp -> GoldLevels]
  /\ \A o \in Opp : ~oppAlive[o] => oppGold[o] = 0
  /\ \/ \A o \in Opp \ {NumOpp} : oppGold[o] >= oppGold[o + 1]
     \/ \A o \in Opp \ {NumOpp} : ~oppAlive[o + 1] \/ oppGold[o] <= oppGold[o + 1]
  /\ oppTerritory = [o \in Opp |-> IF oppAlive[o] THEN Overseas(o, 2) ELSE <<>>]
  /\ InitIsland
  /\ oppInbound = [o \in Opp |-> FALSE]
  /\ mirvBuildable = {}

NextReserve == AgentTick \/ GameTickGold

SpecReserve == InitReserve /\ [][NextReserve]_vars

\* --- the build order: one economy query over tables of holdings
\* Where structureSpawnTile / warshipSpawnTile find a tile the engine accepts.
SitePatterns ==
  {[t \in UnitTypes |-> TRUE],
   [t \in UnitTypes |-> t # "City"],
   [t \in UnitTypes |-> t \in {"Warship", "MissileSilo"}],
   [t \in UnitTypes |-> t \in {"DefensePost", "SAMLauncher"}],
   [t \in UnitTypes |-> FALSE]}

InitEconomy ==
  /\ \E k \in {2, 8, 16} : InitMidGame(k)
  /\ InitHistory
  /\ InitSpawnOver
  /\ InitNoSampler
  /\ horizon = ticks + TickSpan
  /\ gold \in {0, 200000, 2000000, 50000000}
  /\ \E cities \in {0, 1}, ports \in {0, 1}, silos \in {0, 1, 2} :
       units = [t \in UnitTypes |->
                  CASE t = "City" -> cities
                    [] t = "Port" -> ports
                    [] t = "MissileSilo" -> silos
                    [] OTHER -> 0]
  /\ site \in SitePatterns
  /\ myTiles = 100
  /\ myTeam = NoTeam
  /\ cost = UnitCost
  /\ numLandTiles = 1000
  /\ oppAlive = FirstAlive(1)
  /\ oppType = [o \in Opp |-> "FakeHuman"]
  /\ oppTeam = [o \in Opp |-> NoTeam]
  /\ oppAllied = [o \in Opp |-> FALSE]
  /\ oppGold \in {[o \in Opp |-> IF o = 1 THEN g ELSE 0] : g \in {0, 25000000}}
  /\ oppTerritory = [o \in Opp |-> IF oppAlive[o] THEN Overseas(o, 2) ELSE <<>>]
  /\ InitIsland
  /\ oppInbound = [o \in Opp |-> FALSE]
  /\ mirvBuildable = {}

NextEconomy == AgentTick \/ GameTickStill

SpecEconomy == InitEconomy /\ [][NextEconomy]_vars

\* --- conventional nukes: a strip of land east of two neighbours
\* What the neighbours have built, on their own land.
StructurePatterns ==
  {<<[owner |-> 1, type |-> "City", tile |-> <<30, 50>>]>>,
   <<[owner |-> 1, type |-> "City", tile |-> <<30, 50>>],
     [owner |-> 1, type |-> "Port", tile |-> <<0, 0>>],
     [owner |-> 1, type |-> "SAMLauncher", tile |-> <<20, 20>>]>>,
   <<[owner |-> 1, type |-> "DefensePost", tile |-> <<30, 50>>],
     [owner |-> 1, type |-> "MissileSilo", tile |-> <<50, 30>>],
     [owner |-> 2, type |-> "City", tile |-> <<30, 80>>]>>}

InitNuke ==
  /\ InitMidGame(1)
  /\ InitHistory
  /\ InitSpawnOver
  /\ InitNoSampler
  /\ horizon = ticks + attackRate + TickSpan
  /\ gold \in {1000000, 6000000}
  /\ units = [t \in UnitTypes |-> IF t = "MissileSilo" THEN 1 ELSE 0]
  /\ site = [t \in UnitTypes |-> FALSE]
  /\ myTiles = 100
  /\ myTeam = NoTeam
  /\ cost = UnitCost
  /\ numLandTiles = 1000
  /\ oppAlive = FirstAlive(2)
  /\ oppType = [o \in Opp |-> IF o = 1 THEN "Human" ELSE "FakeHuman"]
  /\ oppTeam = [o \in Opp |-> NoTeam]
  /\ oppAllied = [o \in Opp |-> FALSE]
  /\ oppGold = [o \in Opp |-> 0]
  /\ oppTerritory = [o \in Opp |-> IF oppAlive[o] THEN Overseas(o, 2) ELSE <<>>]
  /\ oppInbound = [o \in Opp |-> FALSE]
  /\ mirvBuildable = {}
  /\ frontX = MapSize - 5
  /\ southY \in {60, MapSize}
  /\ southOwner = 2
  /\ enclaves \in {{}, {<<37, 50>>}, {<<60, 50>>}}
  /\ structures \in StructurePatterns
  /\ \A i \in 1..Len(structures) : Owner(structures[i].tile) = structures[i].owner
  /\ siloTiles = <<<<MapSize - 3, 50>>>>
  /\ unbuildable \in {{}, {<<30, 50>>}}
  /\ shore = TRUE
  /\ seaRoute = [o \in Opp |-> o = 2]
  /\ canAlly = [o \in Opp |-> o = 2]

NextNuke == AgentTick \/ GameTickStill

SpecNuke == InitNuke /\ [][NextNuke]_vars

\* --- arraySampler: one call on an array of distinct tiles
\* The arrays of distinct elements of length up to MaxLen.
SampleArrays ==
  {a \in UNION {[1..n -> 1..MaxLen] : n \in 0..MaxLen} :
     \A i, j \in DOMAIN a : i # j => a[i] # a[j]}

\* The game a utility call is followed in: before the nation has spawned.
InitUtility ==
  /\ InitAgent
  /\ InitHistory
  /\ InitSpawnOver
  /\ horizon = 0
  /\ ticks = 0
  /\ phase = "agent"
  /\ spawnPhase = TRUE
  /\ inGame = FALSE
  /\ alive = FALSE
  /\ execs = <<>>
  /\ relationDelta = [o \in Opp |-> 0]
  /\ relation = [o \in Opp |-> IF o = 1 THEN -40 ELSE 0]
  /\ myEmbargo = [o \in Opp |-> FALSE]
  /\ oppAlive = FirstAlive(NumOpp)
  /\ oppEmbargo = [o \in Opp |-> FALSE]
  /\ InitPoor
  /\ InitPlainOpponents
  /\ myTiles = 100
  /\ myTeam = NoTeam
  /\ cost = UnitCost
  /\ numLandTiles = 1000

InitSampler ==
  /\ InitUtility
  /\ smpArray \in SampleArrays
  /\ smpSize \in 0..MaxSample
  /\ smpLeft = smpSize
  /\ smpRemaining = {}
  /\ smpOut = <<>>
  /\ smpDraws = 0
  /\ smpPc = "call"
  /\ sst = NoSstCall
  /\ rtt = NoRttCall
  /\ vtq = NoTargetsCall

NextSampler == SamplerCall \/ SamplerLoop

SpecSampler == InitSampler /\ [][NextSampler]_vars

\* --- structureSpawnTile: one call on a sample of up to MaxSample tiles
SstTiles == {<<0, 0>>, <<1, 0>>, <<2, 0>>}

\* What the placement-value function may give a tile.
PlacementValues == {-1, 0, 1}

InitSpawnTile ==
  /\ InitUtility
  /\ attackTick = 0
  /\ InitNoArraySampler
  /\ rtt = NoRttCall
  /\ vtq = NoTargetsCall
  /\ \E tiles \in UNION {[1..n -> SstTiles] : n \in 0..MaxSample},
        valueFunction \in [SstTiles -> PlacementValues],
        canBuild \in SUBSET SstTiles :
       sst = [pc |-> "call", tiles |-> tiles, valueFunction |-> valueFunction,
              canBuild |-> canBuild, i |-> 0, bestTile |-> NoTile, bestValue |-> 0]

NextSpawnTile == SstCall \/ SstLoop

SpecSpawnTile == InitSpawnTile /\ [][NextSpawnTile]_vars

\* --- randTerritoryTileArray: one call for up to MaxTiles tiles
\* Territories: one tile; a diagonal whose box opens on a tile not owned; two
\* tiles apart; three tiles around an unowned corner.
Territories ==
  {{<<0, 0>>}, {<<1, 0>>, <<0, 1>>}, {<<0, 0>>, <<2, 2>>},
   {<<1, 0>>, <<0, 1>>, <<2, 2>>}}

InitTerritory ==
  /\ InitUtility
  /\ attackTick = 0
  /\ InitNoArraySampler
  /\ sst = NoSstCall
  /\ vtq = NoTargetsCall
  /\ \E numTiles \in 0..MaxTiles, owned \in Territories :
       rtt = [pc |-> "for", numTiles |-> numTiles, owned |-> owned,
              boundingBox |-> CalculateBoundingBox(owned),
              i |-> 0, tries |-> 0, tiles |-> <<>>, draws |-> 0]

NextTerritory == RttFor \/ RttTry

SpecTerritory == InitTerritory /\ [][NextTerritory]_vars

\* --- getValidMirvTargetPlayers: calls at any game tick of a window of two
\* cache lives, while opponents are eliminated
InitCache ==
  /\ InitMidGame(1)
  /\ attackTick = 0
  /\ impl = "execution"
  /\ InitHistory
  /\ InitSpawnOver
  /\ InitNoArraySampler
  /\ sst = NoSstCall
  /\ rtt = NoRttCall
  /\ horizon = ticks + 2 * MIRV_TARGETS_CACHE_TICKS + TickSpan
  /\ gold = 0
  /\ units = [t \in UnitTypes |-> 0]
  /\ site = [t \in UnitTypes |-> FALSE]
  /\ myTiles = 2
  /\ myTeam \in {NoTeam, 1}
  /\ cost = UnitCost
  /\ numLandTiles = 20
  /\ oppAlive = FirstAlive(3)
  /\ oppType = [o \in Opp |-> IF o = 3 THEN "Bot" ELSE "Human"]
  /\ oppTeam = [o \in Opp |-> IF myTeam = NoTeam THEN NoTeam ELSE 1 + (o % 2)]
  /\ oppAllied = [o \in Opp |-> FALSE]
  /\ oppGold = [o \in Opp |-> 0]
  /\ oppTerritory = [o \in Opp |-> IF oppAlive[o] THEN Overseas(o, 2) ELSE <<>>]
  /\ InitIsland
  /\ oppInbound = [o \in Opp |-> FALSE]
  /\ mirvBuildable = {}
  /\ vtq = [pc |-> "on", called |-> FALSE, players |-> {}, refiltered |-> FALSE,
            validAt |-> [o \in Opp |-> IF o \in ValidTargetsNow THEN ticks ELSE -1]]

NextCache == GetValidMirvTargetPlayersCall \/ GameTickPlayers

SpecCache == InitCache /\ [][NextCache]_vars


\* --- the strike's target tile: one strike query at a neighbour in the corner
\* The corner of the map next to the tile numbered 0.
Corner == {<<x, y>> : x \in 0..1, y \in 0..1}

\* The orders a player may have taken the tiles of S in.
Orders(S) ==
  {s \in [1..Cardinality(S) -> S] : \A i, j \in 1..Cardinality(S) : i # j => s[i] # s[j]}

InitStrike ==
  /\ InitMidGame(2)
  /\ InitHistory
  /\ InitSpawnOver
  /\ InitNoSampler
  /\ horizon = ticks + TickSpan
  /\ gold = 100000000
  /\ units = [t \in UnitTypes |-> IF t = "MissileSilo" THEN 1 ELSE 0]
  /\ site \in {[t \in UnitTypes |-> FALSE], [t \in UnitTypes |-> t = "City"]}
  /\ myTeam = NoTeam
  /\ cost = UnitCost
  /\ numLandTiles = MapSize * MapSize
  /\ oppAlive = FirstAlive(1)
  /\ oppType = [o \in Opp |-> "Human"]
  /\ oppTeam = [o \in Opp |-> NoTeam]
  /\ oppAllied = [o \in Opp |-> FALSE]
  /\ oppGold = [o \in Opp |-> 0]
  /\ oppInbound \in {[o \in Opp |-> FALSE], [o \in Opp |-> o = 1]}
  /\ frontX = 2
  /\ southY = 2
  /\ southOwner = NoPlayer
  /\ enclaves \in {{}, {<<1, 1>>}, {<<0, 0>>}, Corner}
  /\ myTiles = (MapSize - 2) * MapSize + Cardinality(enclaves)
  /\ \E order \in Orders(Corner \ enclaves) :
       oppTerritory = [o \in Opp |-> IF o = 1 THEN order ELSE <<>>]
  /\ mirvBuildable \in SUBSET Corner
  /\ structures = <<>>
  /\ siloTiles = <<<<MapSize - 3, 50>>>>
  /\ unbuildable = {}
  /\ shore = FALSE
  /\ seaRoute = [o \in Opp |-> FALSE]
  /\ canAlly = [o \in Opp |-> FALSE]

NextStrike == AgentTick \/ GameTickStill

SpecStrike == InitStrike /\ [][NextStrike]_vars

\* --- the strike gates: queries with and without a silo, with gold for no,
\* one or two strikes, over the span of two cooldowns
GateGoldLevels == {0, 35000000, 70000000}

InitGate ==
  /\ InitMidGame(1)
  /\ InitHistory
  /\ InitSpawnOver
  /\ InitNoSampler
  /\ horizon = MaxTickMirv
  /\ gold \in GateGoldLevels
  /\ \E silos \in 0..1 :
       units = [t \in UnitTypes |-> IF t = "MissileSilo" THEN silos ELSE 0]
  /\ site = [t \in UnitTypes |-> FALSE]
  /\ myTiles = 2
  /\ myTeam = NoTeam
  /\ cost = UnitCost
  /\ numLandTiles = 20
  /\ oppAlive = FirstAlive(1)
  /\ oppType = [o \in Opp |-> "Human"]
  /\ oppTeam = [o \in Opp |-> NoTeam]
  /\ oppAllied = [o \in Opp |-> FALSE]
  /\ oppGold = [o \in Opp |-> 0]
  /\ oppTerritory = [o \in Opp |-> IF o = 1 THEN Overseas(o, 14) ELSE <<>>]
  /\ InitIsland
  /\ oppInbound = [o \in Opp |-> FALSE]
  /\ mirvBuildable = LandOf({1})

NextGate == AgentTick \/ GameTickPaid

SpecGate == InitGate /\ [][NextGate]_vars

\* --- steamroll prevention: one strike query over tables of city counts
MaxCities == 2

\* The cities of opponents 1..o, cnt[p] of them for p, on p's first tiles.
RECURSIVE CitiesTo(_, _)
CitiesTo(cnt, o) ==
  IF o = 0 THEN <<>>
  ELSE CitiesTo(cnt, o - 1) \o
         [k \in 1..cnt[o] |-> [owner |-> o, type |-> "City", tile |-> <<0 - k, o>>]]

InitSteamroll ==
  /\ InitMidGame(2)
  /\ InitHistory
  /\ InitSpawnOver
  /\ InitNoSampler
  /\ horizon = ticks + TickSpan
  /\ gold = 100000000
  /\ \E cities \in 0..MaxCities :
       units = [t \in UnitTypes |-> IF t = "MissileSilo" THEN 1
                                    ELSE IF t = "City" THEN cities ELSE 0]
  /\ site = [t \in UnitTypes |-> FALSE]
  /\ myTiles = 1
  /\ myTeam = NoTeam
  /\ cost = UnitCost
  /\ numLandTiles = 20
  /\ oppAlive = FirstAlive(NumOpp - 1)
  /\ oppType \in {[o \in Opp |-> IF o = 1 THEN t ELSE "FakeHuman"] : t \in {"Human", "Bot"}}
  /\ oppTeam = [o \in Opp |-> NoTeam]
  /\ oppAllied = [o \in Opp |-> FALSE]
  /\ oppGold = [o \in Opp |-> 0]
  /\ oppTerritory = [o \in Opp |-> IF oppAlive[o] THEN Overseas(o, MaxCities) ELSE <<>>]
  /\ oppInbound = [o \in Opp |-> FALSE]
  /\ mirvBuildable = LandOf(Opp)
  /\ \E cnt \in [Opp -> 0..MaxCities] :
       /\ \A o \in Opp : ~oppAlive[o] => cnt[o] = 0
       /\ structures = CitiesTo(cnt, NumOpp)
  /\ frontX = 0
  /\ southY = MapSize
  /\ southOwner = NoPlayer
  /\ enclaves = {}
  /\ siloTiles = <<<<0, 0>>>>
  /\ unbuildable = {}
  /\ shore = FALSE
  /\ seaRoute = [o \in Opp |-> FALSE]
  /\ canAlly = [o \in Opp |-> FALSE]

NextSteamroll == AgentTick \/ GameTickStill

SpecSteamroll == InitSteamroll /\ [][NextSteamroll]_vars

\* --- hostile-embargo enforcement: a warmed agent between two cadence ticks,
\* whatever its relations and embargoes stand at, with opponent 1 on its team
\* in a team game
InitEmbargo ==
  /\ impl \in {"execution", "coordinator"}
  /\ attackRate \in AttackRates
  /\ attackTick \in {0, attackRate - 1}
  /\ player = TRUE
  /\ behavior = TRUE
  /\ active = TRUE
  /\ rngDraws = MaxDraws
  /\ embargoMalusApplied = {}
  /\ lastMIRVSent = <<>>
  /\ mirvTargetsCache = NoCache
  /\ lastEmojiSent = <<>>
  /\ lastNukeSent = <<>>
  /\ ticks = attackTick + attackRate * 2 - 1
  /\ phase = "agent"
  /\ spawnPhase = FALSE
  /\ inGame = TRUE
  /\ alive = TRUE
  /\ execs = <<>>
  /\ InitHistory
  /\ InitSpawnOver
  /\ InitNoSampler
  /\ horizon = ticks + attackRate + TickSpan
  /\ oppAlive = FirstAlive(2)
  /\ relationDelta = [o \in Opp |-> 0]
  /\ relation \in [Opp -> RelationLevels]
  /\ myEmbargo \in [Opp -> BOOLEAN]
  /\ \A o \in Opp : ~oppAlive[o] => relation[o] = 0 /\ ~myEmbargo[o]
  /\ oppEmbargo = [o \in Opp |-> FALSE]
  /\ InitPoor
  /\ myTiles = 100
  /\ cost = UnitCost
  /\ numLandTiles = 1000
  /\ \E teams \in BOOLEAN :
       /\ myTeam = IF teams THEN 1 ELSE NoTeam
       /\ oppTeam = [o \in Opp |-> IF teams THEN (IF o = 1 THEN 1 ELSE 2) ELSE NoTeam]
  /\ oppType = [o \in Opp |-> "FakeHuman"]
  /\ oppAllied = [o \in Opp |-> FALSE]
  /\ oppGold = [o \in Opp |-> 0]
  /\ oppTerritory = [o \in Opp |-> IF oppAlive[o] THEN Overseas(o, 2) ELSE <<>>]
  /\ InitIsland
  /\ oppInbound = [o \in Opp |-> FALSE]
  /\ mirvBuildable = {}

NextEmbargo == AgentTick \/ GameTickRelation

SpecEmbargo == InitEmbargo /\ [][NextEmbargo]_vars

InitEmbargoFair == InitEmbargo /\ attackTick = 0 /\ myTeam = NoTeam

\* The game keeps ticking and calls tick() of an active execution in each of
\* its ticks.
SpecEmbargoFair ==
  InitEmbargoFair /\ [][NextEmbargo]_vars /\ WF_vars(AgentTick) /\ WF_vars(GameTickRelation)

\* --- runs of maybeSendNuke: a nation that has launched nukes before, or
\* one at the gates (silo, gold, the enemy's type and team)
\* The ages, in cadence periods, of the launches the memory may hold.
MemoryAges == {1, 9, 11, 13}

\* this.lastNukeSent after launches at the cadence ticks of those ages,
\* oldest first.
RECURSIVE MemoryOf(_, _)
MemoryOf(ages, j) ==
  IF j = 0 THEN <<>>
  ELSE IF j \in ages
    THEN <<[tick |-> ticks - j * attackRate, tile |-> <<0, 0>>]>> \o MemoryOf(ages, j - 1)
  ELSE MemoryOf(ages, j - 1)

InitMemory ==
  /\ impl \in {"execution", "coordinator"}
  /\ attackRate \in {40, 50}
  /\ attackTick = 0
  /\ player = TRUE
  /\ behavior = TRUE
  /\ active = TRUE
  /\ rngDraws = MaxDraws
  /\ embargoMalusApplied = {}
  /\ lastMIRVSent = <<>>
  /\ mirvTargetsCache = NoCache
  /\ lastEmojiSent = <<>>
  /\ ticks = attackRate * 14
  /\ lastNukeSent \in {MemoryOf(ages, 13) : ages \in SUBSET MemoryAges}
  /\ phase = "agent"
  /\ spawnPhase = FALSE
  /\ inGame = TRUE
  /\ alive = TRUE
  /\ execs = <<>>
  /\ InitHistory
  /\ InitSpawnOver
  /\ InitNoSampler
  /\ horizon = ticks + attackRate + TickSpan
  /\ relationDelta = [o \in Opp |-> 0]
  /\ relation = [o \in Opp |-> IF o = 1 THEN -40 ELSE 0]
  /\ myEmbargo = [o \in Opp |-> FALSE]
  /\ oppEmbargo = [o \in Opp |-> FALSE]
  /\ gold \in {700000, 750000, 1000000}
  /\ \E silos \in {0, 1} :
       units = [t \in UnitTypes |-> IF t = "MissileSilo" THEN silos ELSE 0]
  /\ site = [t \in UnitTypes |-> FALSE]
  /\ myTiles = 100
  /\ myTeam \in {NoTeam, 1}
  /\ cost = UnitCost
  /\ numLandTiles = 1000
  /\ oppAlive = FirstAlive(1)
  /\ oppType \in {[o \in Opp |-> t] : t \in {"Human", "Bot"}}
  /\ oppTeam = [o \in Opp |-> myTeam]
  /\ lastNukeSent # <<>> =>
       /\ gold = 1000000 /\ units["MissileSilo"] = 1
       /\ myTeam = NoTeam /\ oppType[1] = "Human"
  /\ oppAllied = [o \in Opp |-> FALSE]
  /\ oppGold = [o \in Opp |-> 0]
  /\ oppTerritory = [o \in Opp |-> IF oppAlive[o] THEN Overseas(o, 2) ELSE <<>>]
  /\ oppInbound = [o \in Opp |-> FALSE]
  /\ mirvBuildable = {}
  /\ frontX = MapSize - 5
  /\ southY = MapSize
  /\ southOwner = NoPlayer
  /\ enclaves = {}
  /\ structures = <<[owner |-> 1, type |-> "City", tile |-> <<30, 50>>]>>
  /\ siloTiles = [i \in 1..units["MissileSilo"] |-> <<MapSize - 3, 50>>]
  /\ unbuildable = {}
  /\ shore = FALSE
  /\ seaRoute = [o \in Opp |-> FALSE]
  /\ canAlly = [o \in Opp |-> FALSE]

NextMemory == AgentTick \/ GameTickStill

SpecMemory == InitMemory /\ [][NextMemory]_vars

\* --- the wiring: from construction to the first nuke of a nation whose only
\* neighbour is a human with a city
InitWiring ==
  /\ InitAgent
  /\ attackTick = 0
  /\ InitHistory
  /\ InitSpawnMap
  /\ <<54, 54>> \in landTiles
  /\ InitNoSampler
  /\ horizon = 3 * attackRate + TickSpan
  /\ ticks = 0
  /\ phase = "agent"
  /\ spawnPhase = TRUE
  /\ inGame = FALSE
  /\ alive = FALSE
  /\ execs = <<>>
  /\ relationDelta = [o \in Opp |-> 0]
  /\ relation = [o \in Opp |-> IF o = 1 THEN -40 ELSE 0]
  /\ myEmbargo = [o \in Opp |-> FALSE]
  /\ oppEmbargo = [o \in Opp |-> FALSE]
  /\ InitPoor
  /\ myTiles = 100
  /\ myTeam = NoTeam
  /\ cost = UnitCost
  /\ numLandTiles = 1000
  /\ oppAlive = FirstAlive(1)
  /\ oppType = [o \in Opp |-> "Human"]
  /\ oppTeam = [o \in Opp |-> NoTeam]
  /\ oppAllied = [o \in Opp |-> FALSE]
  /\ oppGold = [o \in Opp |-> 0]
  /\ oppTerritory = [o \in Opp |-> IF oppAlive[o] THEN Overseas(o, 2) ELSE <<>>]
  /\ oppInbound = [o \in Opp |-> FALSE]
  /\ mirvBuildable = {}
  /\ frontX = MapSize - 5
  /\ southY = MapSize
  /\ southOwner = NoPlayer
  /\ enclaves = {}
  /\ structures = <<[owner |-> 1, type |-> "City", tile |-> <<30, 50>>]>>
  /\ siloTiles = <<>>
  /\ unbuildable = {}
  /\ shore = FALSE
  /\ seaRoute = [o \in Opp |-> FALSE]
  /\ canAlly = [o \in Opp |-> FALSE]

NextWiring == AgentTick \/ GameTickBuild

SpecWiring == InitWiring /\ [][NextWiring]_vars
\* ================================================================ claims

\* The handler is being called on a tick where it reaches the advisors.
RunsAdvisors ==
  /\ phase = "agent" /\ active
  /\ ticks % attackRate = attackTick
  /\ ~spawnPhase /\ (player \/ inGame) /\ alive /\ behavior

\* C1 (cadence): a call tick(t) with t mod attackRate # attackTick submits no
\* execution, runs no advisor and leaves the game state and every piece of the
\* agent's private state unchanged.
C1_CadenceFrame ==
  [][(phase = "agent" /\ active /\ ticks % attackRate # attackTick)
       => UNCHANGED <<agentVars, gameVars, ghostVars>>]_vars

\* An off-cadence call has returned on a bound, warmed agent holding a penalty.
C1_Witness ==
  /\ phase = "engine" /\ ticks % attackRate # attackTick
  /\ player /\ behavior /\ active /\ embargoMalusApplied # {}

\* C2 (strike cooldown): after a MIRV launch at tick T no second MIRV launch
\* happens at a tick t with T <= t < T + 600, whatever the queries in between
\* find.
C2_LaunchesApart ==
  prevLaunch >= 0 => lastLaunch - prevLaunch >= 600

\* A second launch has happened, on the first cadence tick the cooldown allows.
C2_Witness ==
  /\ prevLaunch >= 0 /\ lastLaunch - prevLaunch < 600 + attackRate
  /\ mirvQuery.launched /\ Len(lastMIRVSent) = 1

\* C3 (embargo idempotence): a run of updateRelationsFromEmbargos that sees the
\* embargo statuses the previous run saw calls updateRelation for no opponent
\* and leaves the ledger and the relations as they are.
C3_EmbargoIdempotent ==
  [][(RunsAdvisors /\ embAtRun = oppEmbargo)
       => /\ dipCalls' = {}
          /\ embargoMalusApplied' = embargoMalusApplied
          /\ relationDelta' = relationDelta]_vars

\* A second run in a row saw an unchanged embargo that is already penalised.
C3_Witness ==
  /\ phase = "engine" /\ dipSame /\ dipCalls = {}
  /\ \E o \in Opp : oppEmbargo[o] /\ oppAlive[o] /\ o \in embargoMalusApplied

\* C4 (ledger invariant): for every opponent the deltas applied through embargo
\* tracking sum to -20 if its id is in the ledger and to 0 otherwise.
C4_LedgerInvariant ==
  \A o \in Opp :
    relationDelta[o] = (IF o \in embargoMalusApplied THEN -20 ELSE 0)

\* A run has just reversed one opponent's penalty while another's stays applied.
C4_Witness ==
  /\ phase = "engine"
  /\ \E o, q \in Opp :
       /\ o \in dipCalls /\ o \notin embargoMalusApplied /\ relationDelta[o] = 0
       /\ q \in embargoMalusApplied /\ relationDelta[q] = -20

\* A strike query has just returned.
StrikeQueried == phase = "engine" /\ mirvQuery.tick = ticks

\* p is a valid strike target: another live player, not a bot, not on the
\* agent's team.
ValidTarget(p) ==
  /\ oppAlive[p] /\ oppType[p] # "Bot"
  /\ ~(myTeam # NoTeam /\ oppTeam[p] = myTeam)

\* The non-teamed valid targets holding at least 65% of the land.
DenialQualifiers ==
  {p \in Opp : /\ ValidTarget(p) /\ oppTeam[p] = NoTeam
               /\ 100 * Tiles(p) >= 65 * numLandTiles}

C9_SpendableGold ==
  LET reserve == GetMIRVReserveThreshold
      expected == IF gold - reserve > 0 THEN gold - reserve ELSE 0
  IN /\ GetSpendableGold = expected
     /\ GetSpendableGold >= 0
     /\ \A c \in {0, cost["City"], expected, expected + 1} :
          CanAffordWithReserve(c) <=> expected >= c

\* An economy query of FakeHumanExecution has just run for a nation that
\* holds less gold than its positive reserve.
C9_Witness ==
  /\ phase = "engine" /\ impl = "execution" /\ ecoQuery.tick = ticks
  /\ reserveSeen > 0 /\ gold > 0 /\ gold < reserveSeen

\* C10 (reserve monotone): for an agent that owns a silo and has live
\* opponents, raising the gold of the richest opponent while every other
\* opponent's gold stays never lowers getMIRVReserveThreshold().
C10_ReserveMonotone ==
  [][(/\ units["MissileSilo"] > 0
      /\ \E r \in Opp :
           /\ oppAlive[r]
           /\ \A o \in Opp : oppAlive[o] => oppGold[o] <= oppGold[r]
           /\ oppGold'[r] >= oppGold[r]
           /\ \A o \in Opp \ {r} : oppGold'[o] = oppGold[o]
      /\ oppAlive' = oppAlive /\ units' = units)
       => GetMIRVReserveThreshold' >= GetMIRVReserveThreshold]_vars

\* The richest opponent's gold has risen since the last economy query and
\* the threshold now stands above what that query computed.
C10_Witness ==
  /\ phase = "agent" /\ impl = "execution" /\ units["MissileSilo"] > 0
  /\ ecoQuery.tick = ticks - 1 /\ reserveSeen > 0
  /\ Cardinality({o \in Opp : oppAlive[o]}) > 3
  /\ GetMIRVReserveThreshold > reserveSeen

\* maybeSendNuke has just decided to launch, in the handler call of this tick.
NukeLaunched == phase = "engine" /\ nukeQuery.tick = ticks /\ nukeQuery.launched

\* The columns (rows) of the map within `radius` of column (row) c.
Span(c, radius) == Max2(0, c - radius)..Min2(MapSize - 1, c + radius)

\* The tiles of the map on the edges of the square of that radius around the
\* launch tile.
RingAt(radius) ==
  {<<x, y>> : x \in Span(nukeQuery.tile[1], radius),
              y \in {nukeQuery.tile[2] - radius, nukeQuery.tile[2] + radius}
                      \cap (0..(MapSize - 1))}
    \cup {<<x, y>> : x \in {nukeQuery.tile[1] - radius, nukeQuery.tile[1] + radius}
                            \cap (0..(MapSize - 1)),
                     y \in Span(nukeQuery.tile[2], radius)}

\* C6 (nuke admissibility): whenever an atom bomb (range 15) or a hydrogen
\* bomb (range 60) is launched at a tile against target p, every tile of
\* the bounding box of that tile at the full range and every tile of the
\* bounding box at floor(range / 2) is owned by p when the decision is taken.
C6_NukeAdmissible ==
  NukeLaunched =>
    /\ nukeQuery.type \in {"AtomBomb", "HydrogenBomb"}
    /\ \E i \in 1..Len(execs) :
         execs[i] = [kind |-> "Nuke", type |-> nukeQuery.type,
                     target |-> nukeQuery.target, tile |-> nukeQuery.tile]
    /\ \A t \in RingAt(IF nukeQuery.type = "AtomBomb" THEN 15 ELSE 60)
                  \cup RingAt(IF nukeQuery.type = "AtomBomb" THEN 7 ELSE 30) :
         Owner(t) = nukeQuery.target

\* A hydrogen bomb was launched at a tile both of whose boxes have tiles on
\* the map, in a world where the agent holds an enclave in the target's land.
C6_Witness ==
  /\ NukeLaunched /\ nukeQuery.type = "HydrogenBomb"
  /\ RingAt(60) # {} /\ RingAt(30) # {}
  /\ enclaves # {}

\* An economy query has just returned.
EconomyQueried == phase = "engine" /\ ecoQuery.tick = ticks

\* The constructions requested in this game tick.
ConstructionsRequested ==
  {i \in 1..Len(execs) : execs[i].kind = "Construction"}

\* The positions of `order` whose type is eligible in the query that has just
\* returned: affordable, a spawn tile found that the engine accepts, and for
\* Warship its special case.
EligibleIn(order) ==
  {i \in 1..Len(order) : Spawns(order[i], ecoQuery.lucky, Affordability)}

\* The query requested exactly the earliest eligible type of `order`, or
\* nothing if no type of `order` is eligible.
RequestsEarliestOf(order) ==
  /\ Cardinality(ConstructionsRequested) <= 1
  /\ IF EligibleIn(order) = {}
     THEN ecoQuery.type = "none" /\ ConstructionsRequested = {}
     ELSE /\ \E i \in EligibleIn(order) :
               /\ \A j \in EligibleIn(order) : i <= j
               /\ ecoQuery.type = order[i]
          /\ \E i \in ConstructionsRequested : execs[i].type = ecoQuery.type

\* C7 as claimed (build-order precedence): one economy query requests at most
\* one construction, of the earliest type in the declared order City, Port,
\* Warship, Factory, DefensePost, SAMLauncher, MissileSilo whose conditions
\* hold; a later type is never requested while an earlier one is eligible.
C7_DeclaredOrder ==
  EconomyQueried =>
    RequestsEarliestOf(<<"City", "Port", "Warship", "Factory", "DefensePost",
                         "SAMLauncher", "MissileSilo">>)

\* C7 as amended: one economy query requests at most one construction, of the
\* earliest eligible type in the build order in effect for that query: the
\* declared order, or, in FakeHumanExecution while
\* shouldPrioritizeMissileSilos() holds, MissileSilo, City, Port, Factory,
\* DefensePost, SAMLauncher; a type later in that order is never requested
\* while an earlier one is eligible.
C7_EffectiveOrder ==
  EconomyQueried =>
    RequestsEarliestOf(
      IF impl = "execution" /\ ShouldPrioritizeMissileSilos
      THEN <<"MissileSilo", "City", "Port", "Factory", "DefensePost", "SAMLauncher">>
      ELSE <<"City", "Port", "Warship", "Factory", "DefensePost", "SAMLauncher",
             "MissileSilo">>)

\* A query has requested a Port, the City before it being ineligible and the
\* Factory after it eligible.
C7_Witness ==
  /\ EconomyQueried /\ ecoQuery.type = "Port"
  /\ ~Spawns("City", ecoQuery.lucky, Affordability)
  /\ Spawns("Factory", ecoQuery.lucky, Affordability)
  /\ Cardinality(ConstructionsRequested) = 1

\* C8 (sampling exhaustiveness): arraySampler(a, n) over an array a of
\* distinct elements returns, when |a| <= n, exactly the elements of a, each
\* once, in order and without drawing from the random stream; when |a| > n it
\* returns exactly n pairwise-distinct elements of a.
C8_SamplerExhaustive ==
  smpPc = "done" =>
    IF Len(smpArray) <= smpSize
    THEN smpOut = smpArray /\ smpDraws = 0
    ELSE /\ Len(smpOut) = smpSize
         /\ \A i, j \in 1..Len(smpOut) : i # j => smpOut[i] # smpOut[j]
         /\ \A i \in 1..Len(smpOut) : \E j \in 1..Len(smpArray) : smpOut[i] = smpArray[j]

\* A call has returned a sample of two or more elements of a longer array.
C8_Witness ==
  /\ smpPc = "done" /\ Len(smpArray) > smpSize /\ smpSize >= 2
  /\ Len(smpOut) = smpSize /\ smpDraws = smpSize


\* The players on the agent's target list with a MIRV in flight at a tile the
\* agent owns.
InboundAttackers == {p \in Opp : ValidTarget(p) /\ oppInbound[p]}

\* The MIRV launches among the submitted executions.
MirvLaunches == {i \in 1..Len(execs) : execs[i].kind = "MIRV"}

NearestToMean(land) ==
  land[CHOOSE i \in 1..Len(land) :
         /\ \A j \in 1..Len(land) :
              CenterDistSquared(land, land[i]) <= CenterDistSquared(land, land[j])
         /\ \A j \in 1..(i - 1) :
              CenterDistSquared(land, land[i]) < CenterDistSquared(land, land[j])]

\* The claimed tile of a strike at a player holding `land`.
ClaimedTile(land) ==
  IF NearestToMean(land) \in mirvBuildable THEN NearestToMean(land)
  ELSE land[CHOOSE i \in 1..Len(land) :
              /\ land[i] \in mirvBuildable
              /\ \A j \in 1..(i - 1) : land[j] \notin mirvBuildable]

\* C12 (strike tile): a MIRV launched against p goes to a tile p owns: the
\* owned tile nearest to the mean of p's tile coordinates if a MIRV can be
\* built there, otherwise the first owned tile in iteration order where one
\* can; and a query that selects a p owning no tile, or no tile a MIRV can be
\* built on, launches nothing and records no cooldown entry.
C12_StrikeTile ==
  /\ \A i \in MirvLaunches :
       /\ execs[i].tile \in SetOf(oppTerritory[execs[i].target])
       /\ execs[i].tile = ClaimedTile(oppTerritory[execs[i].target])
  /\ (/\ StrikeQueried /\ mirvQuery.target # NoPlayer
      /\ SetOf(oppTerritory[mirvQuery.target]) \cap mirvBuildable = {})
       => ~mirvQuery.launched /\ MirvLaunches = {} /\ lastMIRVSent = <<>>

\* C13 (valid target): the player a strike query selects is not the agent, is
\* a player of the game, is not a bot, and is neither allied with the agent
\* nor on the agent's team.
C13_ValidTarget ==
  (StrikeQueried /\ mirvQuery.target # NoPlayer)
    => /\ mirvQuery.target # Me
       /\ mirvQuery.target \in Opp /\ oppAlive[mirvQuery.target]
       /\ oppType[mirvQuery.target] # "Bot"
       /\ ~oppAllied[mirvQuery.target]
       /\ ~IsOnSameTeam(mirvQuery.target)

\* The players of p's team that are in the game.
TeamMembers(p) == {q \in Players : TeamOf(q) = TeamOf(p)}

\* The players of the target list that qualify for victory denial: alone with
\* 65% of the land, or as the largest member of a team with 80% of it.
DenialCandidates ==
  {p \in Opp :
     /\ ValidTarget(p)
     /\ numLandTiles > 0
     /\ IF oppTeam[p] = NoTeam THEN 100 * Tiles(p) >= 65 * numLandTiles
        ELSE /\ 100 * SumTiles(TeamMembers(p)) >= 80 * numLandTiles
             /\ \A q \in TeamMembers(p) :
                  Tiles(p) > Tiles(q) \/ (Tiles(p) = Tiles(q) /\ p <= q)}

\* C14 (heuristic priority): a strike query that passes the gates and does
\* not hesitate takes the counter-strike candidate if there is one; victory
\* denial decides only without a counter-strike candidate, and then whenever
\* it has a candidate; steamroll decides only when neither has one.
C14_HeuristicPriority ==
  (StrikeQueried /\ mirvQuery.result \notin {"gated", "cooling", "hesitated"})
    => /\ InboundAttackers # {}
            => mirvQuery.result = "counter" /\ mirvQuery.target \in InboundAttackers
       /\ mirvQuery.result = "counter" => InboundAttackers # {}
       /\ (InboundAttackers = {} /\ DenialCandidates # {})
            => mirvQuery.result = "denial" /\ mirvQuery.target \in DenialCandidates
       /\ mirvQuery.result = "denial"
            => InboundAttackers = {} /\ DenialCandidates # {}
       /\ mirvQuery.result \in {"steamroll", "none"}
            => InboundAttackers = {} /\ DenialCandidates = {}

\* A counter-strike has been chosen over a victory-denial candidate that is
\* another player.
C14_Witness ==
  /\ StrikeQueried /\ mirvQuery.result = "counter"
  /\ DenialCandidates # {} /\ mirvQuery.target \notin DenialCandidates

\* What the request at position i of execs costs the agent, as it perceives it.
RequestCost(i) ==
  CASE execs[i].kind = "Construction" /\ execs[i].type = "Warship" -> cost["Warship"]
    [] execs[i].kind = "Construction" /\ execs[i].type # "Warship" ->
         PerceivedCost(execs[i].type)
    [] execs[i].kind = "Nuke" -> cost[execs[i].type]
    [] OTHER -> 0

\* C15 (reserve gating): every structure, warship or conventional nuke the
\* agent requests in a tick costs at most its gold minus the MIRV reserve
\* threshold; an agent with a silo and gold below the threshold requests no
\* construction.
C15_ReserveGating ==
  phase = "engine" =>
    \A i \in 1..Len(execs) :
      execs[i].kind \in {"Construction", "Nuke"}
        => gold - GetMIRVReserveThreshold >= RequestCost(i)

\* The stage of an advisors' tick that hands over an execution of this kind:
\* 2 economy, 3 strategic strike, 4 military (1, diplomacy, hands over none).
StageOf(kind) ==
  IF kind = "Construction" THEN 2 ELSE IF kind = "MIRV" THEN 3 ELSE 4

\* The executions of e follow the order of the stages.
InStageOrder(e) ==
  \A i, j \in 1..Len(e) : i < j => StageOf(e[i].kind) <= StageOf(e[j].kind)

\* C17 (arbitration order): on every Active cadence tick the coordinator queries
\* the diplomacy, economy, strategic-strike and military advisors once each, in
\* that order, and executes each recommendation before it queries the next
\* advisor: all four queries carry the tick's stamp, at most one construction
\* and one MIRV are handed over, a recommended construction and a recommended
\* strike are among the executions, and the executions follow the order of
\* the stages, whichever of the advisors recommended nothing.
C17_ArbitrationOrder ==
  [][(RunsAdvisors /\ impl = "coordinator") =>
       /\ dipQuery'.tick = ticks /\ ecoQuery'.tick = ticks
       /\ mirvQuery'.tick = ticks /\ milQuery'.tick = ticks
       /\ execs = <<>> => InStageOrder(execs')
       /\ Cardinality({i \in 1..Len(execs') : execs'[i].kind = "Construction"}) <= 1
       /\ Cardinality({i \in 1..Len(execs') : execs'[i].kind = "MIRV"}) <= 1
       /\ ecoQuery'.type # "none" =>
            \E i \in 1..Len(execs') :
              execs'[i].kind = "Construction" /\ execs'[i].type = ecoQuery'.type
       /\ mirvQuery'.launched =>
            \E i \in 1..Len(execs') :
              execs'[i].kind = "MIRV" /\ execs'[i].target = mirvQuery'.target
       /\ milQuery'.out =
            Cardinality({i \in 1..Len(execs') : StageOf(execs'[i].kind) = 4})]_vars

\* The coordinator's diplomacy and economy advisors recommended nothing, and
\* the tick still launched a MIRV and then handed over a military execution.
C17_Witness ==
  /\ impl = "coordinator" /\ phase = "engine"
  /\ dipQuery.tick = ticks /\ dipQuery.rec = "null"
  /\ ecoQuery.tick = ticks /\ ecoQuery.type = "none"
  /\ mirvQuery.tick = ticks /\ mirvQuery.launched
  /\ milQuery.tick = ticks /\ milQuery.out > 0
  /\ \E i, j \in 1..Len(execs) :
       i < j /\ execs[i].kind = "MIRV" /\ StageOf(execs[j].kind) = 4

\* tick() is at the isAlive() test of a player that is not alive: a cadence
\* tick outside the spawn phase, the player bound or found in mg.players().
FindsPlayerDead ==
  /\ phase = "agent" /\ active
  /\ ticks % attackRate = attackTick
  /\ ~spawnPhase /\ (player \/ inGame) /\ ~alive

\* C18 (dead is terminal): the cadence tick outside the spawn phase that finds
\* the controlled player not alive sets the agent inactive, submits no
\* execution and queries no advisor; an inactive agent stays inactive, and no
\* later step submits an execution or queries an advisor.
C18_DeadIsTerminal ==
  [][/\ FindsPlayerDead =>
          /\ ~active' /\ execs' = <<>>
          /\ UNCHANGED <<rngDraws, advisorVars>>
     /\ ~active =>
          /\ ~active' /\ execs' = <<>>
          /\ UNCHANGED <<rngDraws, advisorVars>>]_vars

\* An agent whose advisors had run found its player dead on a later cadence
\* tick, and another cadence tick of the dead player has come.
C18_Witness ==
  /\ ~active /\ player /\ behavior /\ ~alive
  /\ phase = "agent" /\ ticks % attackRate = attackTick
  /\ ecoQuery.tick >= 0
  /\ ticks > ecoQuery.tick + attackRate

NoSiloOrGold == units["MissileSilo"] = 0 \/ gold < cost["MIRV"]

CoolingDown ==
  \E i \in 1..Len(lastMIRVSent) : lastMIRVSent[i] + MIRV_COOLDOWN_TICKS > ticks

\* C20 (gatekeeping): a strike query of an agent without a missile silo, with
\* gold below the MIRV cost, or with a cooldown entry younger than 600 ticks
\* launches and recommends no strike, makes no draw from the random stream and
\* adds no entry to the cooldown memory.  The gates are tested in this order:
\* without silo or gold the memory is not touched, with both its expired
\* entries are dropped before the cooldown gate is tested.
C20_Gatekeeping ==
  [][(RunsAdvisors /\ (NoSiloOrGold \/ CoolingDown)) =>
       /\ ~mirvQuery'.launched /\ mirvQuery'.target = NoPlayer
       /\ \A i \in 1..Len(execs') : execs'[i].kind # "MIRV"
       /\ mirvQuery'.draws = 0
       /\ Len(lastMIRVSent') <= Len(lastMIRVSent)
       /\ \A i \in 1..Len(lastMIRVSent') :
            \E j \in 1..Len(lastMIRVSent) : lastMIRVSent'[i] = lastMIRVSent[j]
       /\ NoSiloOrGold => lastMIRVSent' = lastMIRVSent
       /\ ~NoSiloOrGold =>
            \A i \in 1..Len(lastMIRVSent') :
              lastMIRVSent'[i] + MIRV_COOLDOWN_TICKS > ticks]_vars

\* A query of an agent that has spent its gold on a strike 600 ticks or more
\* ago was stopped at the gold gate: the expired entry is still in the memory.
C20_Witness ==
  /\ phase = "engine" /\ mirvQuery.tick = ticks /\ mirvQuery.result = "gated"
  /\ units["MissileSilo"] > 0 /\ gold < cost["MIRV"]
  /\ Len(lastMIRVSent) = 1
  /\ lastMIRVSent[1] + MIRV_COOLDOWN_TICKS <= ticks

\* A victory-denial or counter-strike candidate is in the game.
StrikeCandidate ==
  SelectCounterMirvTarget # NoPlayer \/ SelectVictoryDenialTarget # NoPlayer

\* No launch since the last hesitation is younger than the cooldown, and the
\* entry of that hesitation is in the memory while it is.
HesitationCooldown ==
  /\ lastHesitation >= 0 =>
       \/ lastLaunch < lastHesitation
       \/ lastLaunch >= lastHesitation + MIRV_COOLDOWN_TICKS
  /\ (lastHesitation >= 0 /\ ticks < lastHesitation + MIRV_COOLDOWN_TICKS) =>
       \E i \in 1..Len(lastMIRVSent) : lastMIRVSent[i] = lastHesitation

\* C21 (hesitation consumes the cooldown): a strike query whose hesitation
\* draw triggers at tick T launches nothing and records a cooldown entry with
\* tick T, and no MIRV is launched at a tick t with T <= t < T + 600, whatever
\* candidates are in the game.
C21_HesitationCooldown ==
  [][/\ (RunsAdvisors /\ mirvQuery'.result = "hesitated") =>
          /\ ~mirvQuery'.launched
          /\ \A i \in 1..Len(execs') : execs'[i].kind # "MIRV"
          /\ Len(lastMIRVSent') > 0
          /\ lastMIRVSent'[Len(lastMIRVSent')] = ticks
     /\ HesitationCooldown']_vars

\* A query hesitated with a candidate in the game, the candidate stayed, and
\* the first query the cooldown allowed launched.
C21_Witness ==
  /\ lastHesitation >= 0 /\ StrikeCandidate
  /\ mirvQuery.launched /\ lastLaunch = ticks
  /\ lastLaunch >= lastHesitation + MIRV_COOLDOWN_TICKS
  /\ lastLaunch < lastHesitation + MIRV_COOLDOWN_TICKS + attackRate

\* C22 (steamroll prevention): the steamroll heuristic selects a player only
\* if it has the highest count of cities among the valid targets, its count is
\* at least 1.8 times the highest count of any other player, and its count
\* clears a positive floor; with every count at zero it selects nobody.
C22_SteamrollTarget ==
  (StrikeQueried /\ mirvQuery.result = "steamroll") =>
    /\ ValidTarget(mirvQuery.target)
    /\ \A q \in Opp : ValidTarget(q) => CountCities(mirvQuery.target) >= CountCities(q)
    /\ \A q \in Players \ {mirvQuery.target} :
         5 * CountCities(mirvQuery.target) >= 9 * CountCities(q)
    /\ CountCities(mirvQuery.target) > 0

\* C23 (team victory denial): the victory-denial heuristic selects a valid
\* target that belongs to a team only if the tiles of all the team's members
\* are at least 80% of the land tiles and the target owns the most tiles of
\* the team, the first such member in player order on equal counts; no other
\* member of the team is selected.
C23_TeamDenial ==
  (StrikeQueried /\ mirvQuery.result = "denial" /\ TeamOf(mirvQuery.target) # NoTeam)
    => /\ ValidTarget(mirvQuery.target)
       /\ 100 * SumTiles(TeamMembers(mirvQuery.target)) >= 80 * numLandTiles
       /\ \A q \in TeamMembers(mirvQuery.target) :
            \/ Tiles(mirvQuery.target) > Tiles(q)
            \/ Tiles(mirvQuery.target) = Tiles(q) /\ mirvQuery.target <= q

\* Victory denial has selected the earlier of two valid targets that share
\* the lead of a team with 80% of the land.
C23_Witness ==
  /\ StrikeQueried /\ mirvQuery.result = "denial"
  /\ TeamOf(mirvQuery.target) # NoTeam
  /\ \E q \in TeamMembers(mirvQuery.target) :
       /\ q # mirvQuery.target /\ ValidTarget(q)
       /\ Tiles(q) = Tiles(mirvQuery.target)

\* C24 (hostile-embargo hysteresis): one run of the enforcement imposes an
\* embargo on an opponent only if the relation is Hostile or worse, there is no
\* embargo yet and the opponent is not on the agent's team; it lifts one only
\* if the relation is Neutral or better and the embargo is active; with the
\* relation strictly between Hostile and Neutral the embargo stays as it was.
C24_EmbargoHysteresis ==
  [][RunsAdvisors =>
       \A o \in Others :
         /\ (myEmbargo'[o] /\ ~myEmbargo[o]) =>
              RelationOf(relation'[o]) <= Hostile /\ ~IsOnSameTeam(o)
         /\ (~myEmbargo'[o] /\ myEmbargo[o]) => RelationOf(relation'[o]) >= Neutral
         /\ (RelationOf(relation'[o]) > Hostile /\ RelationOf(relation'[o]) < Neutral) =>
              myEmbargo'[o] = myEmbargo[o]]_vars

\* After a run the agent keeps an embargo on an opponent it distrusts and has
\* none on another opponent it distrusts as much.
C24_Witness ==
  /\ phase = "engine" /\ ecoQuery.tick = ticks
  /\ \E o, q \in Others :
       /\ RelationOf(relation[o]) = 1 /\ myEmbargo[o]
       /\ RelationOf(relation[q]) = 1 /\ ~myEmbargo[q]

\* C25 (embargo release): an embargo the agent holds against an opponent whose
\* relation stays Neutral or better, while the agent lives, is lifted no later
\* than by the agent's next advisors' tick, and it is not imposed again while
\* the relation stays above Hostile.
C25_EmbargoRelease ==
  /\ [][/\ RunsAdvisors =>
             \A o \in Others :
               /\ RelationOf(relation'[o]) >= Neutral => ~myEmbargo'[o]
               /\ (~myEmbargo[o] /\ RelationOf(relation'[o]) > Hostile) => ~myEmbargo'[o]
        /\ myEmbargo' # myEmbargo => RunsAdvisors]_vars
  /\ \A o \in Opp :
       (myEmbargo[o] /\ oppAlive[o] /\ horizon - ticks > attackRate)
         ~> (~myEmbargo[o] \/ RelationOf(relation[o]) < Neutral \/ ~alive)

\* A later run has left alone an opponent whose embargo an earlier run lifted
\* and whose relation has cooled to Distrustful since.
C25_Witness ==
  /\ phase = "engine" /\ ecoQuery.tick = ticks
  /\ \E o \in Others :
       o \in embLifted /\ ~myEmbargo[o] /\ RelationOf(relation[o]) = 1

\* An economy query has just run, in the handler call of this tick.
JustQueried == phase = "engine" /\ ecoQuery.tick = ticks

\* C26 (reserve range): getMIRVReserveThreshold() is 0 for a nation without a
\* missile silo; with a silo it lies between 35,000,000 and 60,000,000
\* inclusive whatever the opponents hold, and it is exactly 35,000,000 when no
\* opponent lives.
C26_ReserveRange ==
  JustQueried =>
    LET reserve == GetMIRVReserveThreshold
    IN /\ impl = "execution" => reserveSeen = reserve
       /\ units["MissileSilo"] = 0 => reserve = 0
       /\ units["MissileSilo"] > 0 =>
            /\ reserve >= 35000000 /\ reserve <= 60000000
            /\ OtherPlayers = {} => reserve = 35000000

\* A query of a silo owner whose richest opponent holds so much that 0.7 of
\* it runs into the cap.
C26_Witness ==
  /\ JustQueried /\ impl = "execution" /\ units["MissileSilo"] > 0
  /\ reserveSeen = 60000000
  /\ \E o \in OtherPlayers : 7 * (Gold(o) \div 10) > 60000000

\* floor(1.4 x weightedBenchmark) for the gold the other players hold, with
\* weightedBenchmark = 0.6 x (average of the top three) + 0.4 x (average).
BenchmarkTimes14 ==
  LET n == Cardinality(OtherPlayers)
      k == Min2(3, n)
  IN WideFloorDiv(WideAdd(Wide(14 * 3 * n, TopSum(OtherPlayers, k)),
                          Wide(14 * 2 * k, TopSum(OtherPlayers, n))),
                  10 * 5 * k * n)

MaxOpponentGold == Gold(FirstMax(OtherPlayers, Gold))

\* C27 (reserve formula collapses): for a silo owner with a live opponent the
\* threshold equals floor(min(60,000,000, max(35,000,000, 1.4 x
\* weightedBenchmark, 0.7 x maxOpponentGold))): the multiplier steps below 1.4
\* never show in the result.
C27_ReserveCollapses ==
  (JustQueried /\ units["MissileSilo"] > 0 /\ OtherPlayers # {}) =>
    GetMIRVReserveThreshold =
      Min2(60000000,
           Max2(35000000,
                Max2(BenchmarkTimes14, (7 * MaxOpponentGold) \div 10)))

\* A query whose threshold is 1.4 x weightedBenchmark, strictly between the
\* floor and the cap and above 0.7 of the richest opponent's gold.
C27_Witness ==
  /\ JustQueried /\ impl = "execution" /\ units["MissileSilo"] > 0
  /\ OtherPlayers # {}
  /\ reserveSeen = BenchmarkTimes14
  /\ reserveSeen > 35000000 /\ reserveSeen < 60000000
  /\ reserveSeen > (7 * MaxOpponentGold) \div 10

\* tick() is called at a cadence tick of the spawn phase.
SpawnCadenceTick == phase = "agent" /\ active /\ ~OffCadence(ticks) /\ spawnPhase

Distance(a, b) == IF a >= b THEN a - b ELSE b - a

\* C28 (spawn phase): a cadence tick in the spawn phase hands over at most one
\* SpawnExecution and nothing else, binds no player and queries no advisor;
\* the tile of a SpawnExecution is on the map, land, without owner and within
\* 25 of the spawn cell in x and in y; where no try can succeed nothing is
\* handed over, and off the cadence nothing is attempted.
C28_SpawnPhase ==
  [][/\ SpawnCadenceTick =>
          /\ \/ execs' = execs
             \/ \E t \in landTiles \ claimedTiles :
                  /\ execs' = Append(execs, [kind |-> "Spawn", tile |-> t])
                  /\ OnMap(t)
                  /\ Distance(t[1], spawnCell[1]) <= 25
                  /\ Distance(t[2], spawnCell[2]) <= 25
          /\ RandomSpawnLand = {NoTile} => execs' = execs
          /\ ~player' /\ ~behavior'
          /\ UNCHANGED advisorVars
     /\ (phase = "agent" /\ spawnPhase /\ OffCadence(ticks)) => execs' = execs]_vars

\* At a cadence tick after its first, the agent has handed over a
\* SpawnExecution for a mountain tile at the edge of the map, its player
\* still unbound.
C28_Witness ==
  /\ phase = "engine" /\ spawnPhase /\ ~player /\ ticks >= attackRate
  /\ execs = <<[kind |-> "Spawn", tile |-> <<0, 99>>]>>

\* tick() is called at a cadence tick after the spawn phase with the nation's
\* player in the game and alive, and no behavior helper yet.
WarmingTick ==
  /\ phase = "agent" /\ active /\ ~OffCadence(ticks)
  /\ ~spawnPhase /\ (player \/ inGame) /\ alive /\ ~behavior

ForcedAttacks(es) == {i \in 1..Len(es) : es[i].kind = "Attack" /\ es[i] = ForceSendAttack(NoPlayer)}

\* C29 (warming happens once): the first cadence tick after the spawn phase
\* that finds the player bound and alive creates the behavior helper, forces
\* one attack on unclaimed land and does nothing else; every later tick keeps
\* the helper and forces no attack; the player is assigned at most once.
C29_WarmingOnce ==
  [][/\ WarmingTick =>
          /\ behavior' /\ player' /\ active'
          /\ execs' = Append(execs, ForceSendAttack(NoPlayer))
          /\ UNCHANGED <<rngDraws, advisorVars>>
     /\ behavior => /\ behavior'
                    /\ phase = "agent" => ForcedAttacks(execs') = {}
     /\ ~WarmingTick => behavior' = behavior
     /\ player => player' /\ binds' = binds
     /\ binds' <= 1 /\ (player' <=> binds' = 1)]_vars

\* A warmed agent has run its advisors at a later cadence tick, its player
\* assigned once, and forced no attack.
C29_Witness ==
  /\ phase = "engine" /\ behavior /\ player /\ active /\ binds = 1
  /\ ecoQuery.tick = ticks /\ ticks >= 3 * attackRate
  /\ ForcedAttacks(execs) = {}

\* C30 (nuke candidate set): the candidates of a conventional nuke on p are
\* the distinct tiles of a random sample of p's territory and of p's cities,
\* defense posts, missile silos, ports and SAM launchers; every tile of the
\* random sample is owned by p.
C30_NukeCandidates ==
  (phase = "engine" /\ nukeQuery.tick = ticks /\ nukeQuery.target \in Opp) =>
    \A samples \in TerritorySamples :
      \A i \in 1..Len(samples) : Owner(samples[i]) = nukeQuery.target

\* The structure tiles of `other`, candidates of every nuke run against it,
\* that pass the ownership test and that the engine lets the agent build on.
GoodCandidates(other) ==
  {t \in {TargetStructures(other)[i].tile : i \in 1..Len(TargetStructures(other))} :
     Admissible(t, other, NukeRange(NukeType)) /\ t \notin unbuildable}

\* The score of a tile as the run of this tick computes it.
ScoreNow(t, other) ==
  NukeTileScore(t, TargetStructures(other), RemoveOldNukeEvents(lastNukeSent))

\* C31 (nuke selection): whenever a candidate tile is admissible and
\* buildable, a nuke is launched, at the admissible buildable candidate of
\* the highest score; no nuke is launched only when there is no such
\* candidate.
C31_NukeSelection ==
  [][(RunsAdvisors /\ nukeQuery'.tick = ticks /\ nukeQuery'.target \in Opp
        /\ GoodCandidates(nukeQuery'.target) # {})
       => /\ nukeQuery'.launched
          /\ \A t \in GoodCandidates(nukeQuery'.target) :
               ~ScoreGreater(ScoreNow(t, nukeQuery'.target),
                             ScoreNow(nukeQuery'.tile, nukeQuery'.target))]_vars

\* The entries of the memory are in the order of their ticks.
OrderedByTick(sent) ==
  \A i, j \in 1..Len(sent) : i < j => sent[i].tick <= sent[j].tick

\* C32 (nuke memory is a sliding window): the memory is ordered by tick; a
\* run that reaches the eviction pass at tick t leaves exactly the entries
\* with entryTick + 500 >= t, in their order, followed by one (t, tile) entry
\* if it launches; no other step changes the memory.
C32_NukeMemory ==
  [][/\ OrderedByTick(lastNukeSent')
     /\ (RunsAdvisors /\ nukeQuery'.tick = ticks /\ nukeQuery'.target \in Opp)
          => lastNukeSent' =
               SelectSeq(lastNukeSent, LAMBDA e : e.tick + 500 >= ticks)
                 \o (IF nukeQuery'.launched
                     THEN <<[tick |-> ticks, tile |-> nukeQuery'.tile]>> ELSE <<>>)
     /\ ~(RunsAdvisors /\ nukeQuery'.tick = ticks /\ nukeQuery'.target \in Opp)
          => lastNukeSent' = lastNukeSent]_vars

\* A launch has just been recorded behind an entry exactly 500 ticks old,
\* one cadence period after the first run.
C32_Witness ==
  /\ NukeLaunched /\ ticks = horizon - TickSpan
  /\ Len(lastNukeSent) >= 3
  /\ lastNukeSent[1].tick + 500 = ticks
  /\ lastNukeSent[Len(lastNukeSent)] = [tick |-> ticks, tile |-> nukeQuery.tile]

\* C33 (conventional-nuke gating): a nuke is launched against p only if the
\* agent owns a missile silo, holds at least the cost of an atom bomb, p is
\* not a Bot and p is not on the agent's team.
C33_NukeGating ==
  NukeLaunched =>
    /\ units["MissileSilo"] >= 1
    /\ gold >= cost["AtomBomb"]
    /\ oppType[nukeQuery.target] # "Bot"
    /\ ~IsOnSameTeam(nukeQuery.target)

\* A nuke was launched by a nation holding exactly the cost of an atom bomb.
C33_Witness ==
  /\ NukeLaunched /\ gold = cost["AtomBomb"]
  /\ nukeQuery.type = "AtomBomb" /\ units["MissileSilo"] = 1

\* ---------------------------------------------------------------- C34
\* The sampled positions structureSpawnTile may return under the claim:
\* buildable and of a placement value that is not negative.
SstEligible ==
  {i \in 1..Len(sst.tiles) :
     sst.tiles[i] \in sst.canBuild /\ sst.valueFunction[sst.tiles[i]] >= 0}

\* The first position of the highest value among the positions S.
SstFirstBest(S) ==
  CHOOSE i \in S :
    \A j \in S : \/ sst.valueFunction[sst.tiles[j]] < sst.valueFunction[sst.tiles[i]]
                 \/ (sst.valueFunction[sst.tiles[j]] = sst.valueFunction[sst.tiles[i]] /\ i <= j)

\* C34: when structureSpawnTile returns, its result is the first sampled tile of
\* the highest non-negative placement value among the sampled tiles the engine
\* confirms buildable, and null when there is no such tile; a tile of a negative
\* placement value is never returned.
C34_SpawnTileSelection ==
  sst.pc = "done" =>
    IF SstEligible = {} THEN sst.bestTile = NoTile
    ELSE sst.bestTile = sst.tiles[SstFirstBest(SstEligible)]

\* ---------------------------------------------------------------- C35
\* C35: whenever shouldPrioritizeMissileSilos() holds in an economy query, the
\* MissileSilo is evaluated before every other structure type: if a silo is
\* eligible the query requests the silo, whatever else is eligible.
C35_SiloFirst ==
  (EconomyQueried /\ ShouldPrioritizeMissileSilos
     /\ Spawns("MissileSilo", ecoQuery.lucky, Affordability))
    => ecoQuery.type = "MissileSilo"

\* ---------------------------------------------------------------- C36
\* What is left of a call of randTerritoryTileArray: it falls with every step.
RttVariant ==
  102 * (rtt.numTiles - rtt.i)
    - (CASE rtt.pc = "for" -> 0 [] rtt.pc = "try" -> rtt.tries + 1 [] OTHER -> 2)

InBoundingBox(t, box) ==
  /\ box.min[1] <= t[1] /\ t[1] <= box.max[1]
  /\ box.min[2] <= t[2] /\ t[2] <= box.max[2]

RttBounded ==
  /\ rtt.draws <= 100 * rtt.numTiles
  /\ Len(rtt.tiles) <= rtt.numTiles
  /\ RttVariant >= -2
  /\ \A k \in 1..Len(rtt.tiles) :
       /\ OnMap(rtt.tiles[k])
       /\ InBoundingBox(rtt.tiles[k], rtt.boundingBox)
       /\ rtt.tiles[k] \in rtt.owned

\* C36: a call randTerritoryTileArray(n) terminates (every step brings it
\* nearer its end) after at most 100 x n coordinate draws; it returns at most
\* n tiles, each on the map, inside the bounding box of the player's border
\* tiles and owned by the player; a call that finds fewer than n tiles, or
\* none, ends like any other.
C36_TerritorySampler ==
  [][/\ RttVariant' < RttVariant
     /\ RttBounded'
     /\ (rtt.pc = "for" /\ rtt.i = rtt.numTiles) => rtt'.pc = "done"]_vars

\* A call for two tiles has returned one: one search gave up after 100 draws.
C36_Witness ==
  /\ rtt.pc = "done" /\ rtt.numTiles = 2 /\ Len(rtt.tiles) = 1
  /\ rtt.draws > 100

\* ---------------------------------------------------------------- C37
\* A step that is one call of getValidMirvTargetPlayers().
TargetsCalled == vtq'.called /\ ticks' = ticks

\* C37: a call re-filters the game's players exactly when no cache exists or
\* the cache is 20 ticks old or older, and caches what it filtered under the
\* current tick; a call on a younger cache returns the cached list and leaves
\* the cache alone; so a returned player passed the filter at most 19 ticks
\* before the call.
C37_CacheWindow ==
  [][TargetsCalled =>
       /\ vtq'.refiltered <=> (~mirvTargetsCache.set \/ ticks - mirvTargetsCache.tick >= 20)
       /\ vtq'.refiltered =>
            /\ vtq'.players = {p \in Others : oppType[p] # "Bot" /\ ~IsOnSameTeam(p)}
            /\ mirvTargetsCache' = [set |-> TRUE, tick |-> ticks, players |-> vtq'.players]
       /\ ~vtq'.refiltered =>
            /\ vtq'.players = mirvTargetsCache.players
            /\ mirvTargetsCache' = mirvTargetsCache
       /\ \A p \in vtq'.players : ticks - vtq.validAt[p] <= 19]_vars

\* A call has returned, from the cache, a player eliminated 19 ticks ago.
C37_Witness ==
  /\ vtq.called /\ ~vtq.refiltered
  /\ \E p \in vtq.players : ~oppAlive[p] /\ ticks - vtq.validAt[p] = 19

\* ---------------------------------------------------------------- C38
\* FakeHumanExecution.maybeAttack() and what it calls, whichever
\* implementation the run follows: the score with the silo distance, the
\* test bestTile !== null, the boat attack that spares a friendly player, and
\* the alliance request after which the call goes on.
NukeTileScoreOriginal(tile, targets, sent) ==
  <<TileValue(tile, targets, sent), ClosestSiloDistSquared(tile)>>

RECURSIVE BestFromOriginal(_, _, _, _, _, _, _)
BestFromOriginal(cands, i, best, other, nukeType, targets, sent) ==
  IF i > Len(cands) THEN best
  ELSE IF \/ ~Admissible(cands[i], other, NukeRange(nukeType))
          \/ cands[i] \in unbuildable
          \/ ~ScoreGreater(NukeTileScoreOriginal(cands[i], targets, sent), best.value)
    THEN BestFromOriginal(cands, i + 1, best, other, nukeType, targets, sent)
  ELSE BestFromOriginal(cands, i + 1,
                        [tile |-> cands[i],
                         value |-> NukeTileScoreOriginal(cands[i], targets, sent)],
                        other, nukeType, targets, sent)

MaybeSendNukeOriginal(other) ==
  IF \/ units["MissileSilo"] = 0 \/ gold < cost["AtomBomb"]
     \/ oppType[other] = "Bot" \/ IsOnSameTeam(other)
  THEN {NukeOutcome(lastNukeSent, <<>>, 0, NoPlayer, "none", NoTile, FALSE)}
  ELSE
    {LET sent == RemoveOldNukeEvents(lastNukeSent)
         targets == TargetStructures(other)
         cands == Distinct(samples \o [i \in 1..Len(targets) |-> targets[i].tile],
                           Len(samples) + Len(targets))
         bestTile == BestFromOriginal(cands, 1, [tile |-> NoTile, value |-> <<0, 0>>],
                                      other, NukeType, targets, sent).tile
     IN IF bestTile # NoTile
        THEN NukeOutcome(Append(sent, [tick |-> ticks, tile |-> bestTile]),
                         <<[kind |-> "Nuke", type |-> NukeType, target |-> other,
                            tile |-> bestTile]>>,
                         MaxDraws, other, NukeType, bestTile, TRUE)
        ELSE NukeOutcome(sent, <<>>, MaxDraws, other, NukeType, bestTile, FALSE)
       : samples \in TerritorySamples}

SelectAndEngageOriginal(emoji, before) ==
  UNION {IF enemy = NoPlayer THEN {EarlyReturn(emoji, before)}
         ELSE {MilitaryOutcome(em.map, nuke.nukes,
                               before \o em.out \o nuke.out \o attack,
                               MaxDraws, nuke.query) :
                 em \in {MaybeSendEmoji(enemy, emoji)},
                 nuke \in MaybeSendNukeOriginal(enemy),
                 attack \in IF enemy \in BorderOwners THEN SendAttack(enemy)
                            ELSE {IF ~IsFriendly(enemy) /\ shore /\ seaRoute[enemy]
                                  THEN <<[kind |-> "Boat", target |-> enemy]>>
                                  ELSE <<>>}}
           : enemy \in SelectEnemy}

MaybeAttackOriginal(emoji) ==
  IF EnemyBorder = {} THEN
    {EarlyReturn(emoji, <<>>)} \cup {EarlyReturn(emoji, b) : b \in SendBoatRandomly}
  ELSE
    {EarlyReturn(emoji, b) : b \in SendBoatRandomly}
      \cup (IF NoPlayer \in BorderOwners
            THEN {EarlyReturn(emoji, a) : a \in SendAttack(NoPlayer)}
            ELSE SelectAndEngageOriginal(emoji, <<>>)
                   \cup UNION {SelectAndEngageOriginal(emoji,
                                 IF canAlly[toAlly]
                                 THEN <<[kind |-> "AllianceRequest", target |-> toAlly]>>
                                 ELSE <<>>) : toAlly \in BorderOwners})

\* What a military step submits and the memories it leaves, outcome by outcome.
MilitaryEffects(outcomes) ==
  {[out |-> o.out, emoji |-> o.emoji, nukes |-> o.nukes] : o \in outcomes}

\* C38: in a game state in which the coordinator queries its advisors,
\* MilitaryAdvisor.recommend() followed by the execute() of its recommendation
\* submits, over the random draws and the enemy selections possible in that
\* state, exactly the actions FakeHumanExecution.maybeAttack() submits there,
\* and leaves the same emoji and nuke memories.
C38_MilitaryRefinement ==
  (RunsAdvisors /\ impl = "coordinator") =>
    \A mirv \in ConsiderMIRV :
      MilitaryEffects(MaybeAttack(mirv.emoji))
        = MilitaryEffects(MaybeAttackOriginal(mirv.emoji))

\* ---------------------------------------------------------------- C39
\* C39: recommend() of an advisor submits no execution and changes no game
\* state; only execute() of the recommendation returned does.  So a tick of
\* the coordinator in which the diplomacy advisor returns no recommendation
\* changes no relation and no embargo, and the military stage, whose
\* recommendation submits one execution when executed, hands over at most one.
C39_QueriesEffectFree ==
  [][(RunsAdvisors /\ impl = "coordinator") =>
       /\ dipQuery'.rec = "null" =>
            /\ relation' = relation /\ relationDelta' = relationDelta
            /\ myEmbargo' = myEmbargo
       /\ milQuery'.out <= 1]_vars

\* ---------------------------------------------------------------- C40
\* The step runs the advisors' methods (those behind a player-null check).
AdvisorsReached ==
  /\ phase = "agent"
  /\ \/ dipQuery'.tick = ticks \/ ecoQuery'.tick = ticks
     \/ mirvQuery'.tick = ticks \/ milQuery'.tick = ticks
     \/ relation' # relation \/ myEmbargo' # myEmbargo

\* The step's maybeSendNuke has passed its gates and scores tiles.
NukeScoringReached ==
  phase = "agent" /\ nukeQuery'.tick = ticks /\ nukeQuery'.target \in Opp

\* C40: no run through tick() raises "not initialized" or "Missing result":
\* the advisors' methods are reached only with the player bound, in the game
\* and alive and with this.behavior created (maybeAttack tests both), and the
\* nuke tile scoring, which needs a closest silo, only with an own silo.
C40_ChecksNeverFire ==
  [][/\ AdvisorsReached => (player' /\ inGame /\ alive /\ behavior /\ binds' >= 1)
     /\ NukeScoringReached => (units["MissileSilo"] >= 1 /\ Len(siloTiles) >= 1)]_vars

\* An execution bound in this run has scored tiles and launched a nuke.
C40_Witness ==
  /\ impl = "execution" /\ binds = 1 /\ player /\ behavior
  /\ nukeQuery.tick = ticks /\ nukeQuery.launched
  /\ milQuery.tick = ticks /\ Len(siloTiles) = 1
====
